---- MODULE Spec2Model ----
(***************************************************************************)
(* A model of the OpenMuse NBA ETL pipeline (src/data/scripts).            *)
(*                                                                         *)
(* The pipeline is a chain of independent components, each modelled by a   *)
(* specification of its own over its own group of variables:               *)
(*   SpecRetry   call_with_retries                  (nba/collector.py)     *)
(*   Spec        collect_data_for_all_players/teams (nba/collector.py)     *)
(*   SpecEmbed   generate_embeddings_batch, process_file,                  *)
(*               process_combined_file    (nba_embeddings_generator.py)    *)
(*   SpecUpload  upload_documents, upload_file and the populator's entry   *)
(*               points              (nba/connector.py, nba/populate.py,   *)
(*               nba/connector_turso.py)                                   *)
(*   SpecStart   main and NBADatabasePopulator.__init__ (nba/populate.py)  *)
(*   SpecAsm     process_player_data, process_team_data (nba/processor.py) *)
(*   SpecEquiv   upload_documents of nba/connector.py and of               *)
(*               nba_mongodb_connector.py, side by side                    *)
(* LiveSpec is Spec with its threads scheduled.                            *)
(* A specification leaves the variables of the other components at their   *)
(* idle values.                                                            *)
(***************************************************************************)
EXTENDS Integers, Sequences, FiniteSets, TLC

VARIABLES
    \* ---- call_with_retries (collector.py:49-74)
    rPc,            \* "idle" | "loop" | "returned" | "raised"
    max_retries,    \* parameter
    initial_delay,  \* parameter
    timeout,        \* parameter
    takes_timeout,  \* 'timeout' in api_func.__code__.co_varnames
    attempt,        \* loop variable of "for attempt in range(1, max_retries + 1)"
    delay,          \* local
    last_exc,       \* local; << >> is None
    rResult,        \* the value returned; << >> while none
    rRaised,        \* the exception that left the function; << >> while none
    rTrace,         \* the calls of api_func and of time.sleep, in order
    \* ---- collect_data_for_all_players / _teams (collector.py:354-439)
    bPc,            \* the main thread: "idle" | "start" | "iter" | "reset" |
                    \* "break" | "shutdown" | "returned" | "raised", then
                    \* collect_data: "collect_data_true" | "collect_data_false",
                    \* then run_full_pipeline: "process_data" | "pipeline_false"
    limit,          \* parameter; 0 is None
    max_workers,    \* parameter
    files,          \* the output directory: entity id -> "none" | "partial" | "complete"
    filesAtStart,   \* the output directory when the run started
    cache,          \* self.cache: the set of keys it holds
    pending,        \* players_to_process
    task,           \* entity id -> position of its process_player call
    failedAt,       \* entity id -> the step of process_player that raised, "" if none
    tmp,            \* entity id -> the value its worker loaded from timeout_tracker['count']
    count,          \* timeout_tracker['count']
    pos,            \* i + 1 of the enumerate loop: the result being waited for
    fetched,        \* entity id -> the sub-fetches this run issued remotely for it
    writes,         \* entity id -> how often this run opened its file for writing
    dir,            \* the output directory: "ok" | "missing" | "unlistable"
    mainLog,        \* the main thread: the abort it logged, the steps of
                    \* run_collection it has run after the players
    fetchLog,       \* entity id -> the pacing sleeps and remote fetches of
                    \* its _get_with_cache calls, in order
    cacheVal,       \* self.cache[key] for every key; << >> for a key not in it
    \* ---- NBAEmbeddingsGenerator (nba_embeddings_generator.py:88-259)
    ePc,            \* "idle" | "load" | "batch" | "attach" | "done"
    eEntry,         \* the method called
    inFile,         \* <data_dir>/<filename>: [state, docs]
    outFile,        \* <output_dir>/embedded_<filename> or all_embedded_data.json
    texts,          \* parameter of generate_embeddings_batch
    batch_size,     \* parameter
    retry_limit,    \* parameter
    eI,             \* i of "for i in range(0, len(texts), batch_size)"
    eAttempt,       \* attempt of "for attempt in range(retry_limit)"
    all_embeddings, \* local
    eServed,        \* <<i, order>> of every embeddings.create call that returned
    eAttempted,     \* i of every batch embeddings.create was called for
    eReturn,        \* the documents process_file returned
    \* ---- NBAMongoDBConnector and NBADatabasePopulator
    \*      (nba/connector.py:69-245, nba/populate.py:106-297)
    uPc,            \* position of the entry point called
    uEntry,         \* the entry point called
    embFile,        \* <embeddings_dir>/all_embedded_data.json: [state, docs]
    documents,      \* parameter of upload_documents
    uBatchSize,     \* parameter batch_size
    clear_first,    \* parameter
    connected,      \* connect() has returned True and disconnect() has not run
    store,          \* the documents of the collection, in insertion order
    indexExists,    \* list_indexes of the collection has an index named index_name
    uI,             \* i of "for i in range(0, len(documents), batch_size)"
    total_uploaded, \* local
    uBatches,       \* every insert_many call: [start, size, outcome]
    uLog,           \* the messages connect and upload_documents have logged
    uInserted,      \* every document this run has inserted into the store
    uReturn,        \* what the entry point returned; << >> while running
    searchIndex,    \* the collection has an Atlas Search index named index_name
    uIndexLog,      \* every create_vector_index call: [found, requested, existed, result]
    cwdFile,        \* all_embedded_data.json of the current directory: [state, docs]
    uOps,           \* the operations this run has issued to the destination
    storeAtStart,   \* the documents of the collection when the run started
    procFile,       \* <processed_dir>/all_processed_data.json: "absent" |
                    \* "unreadable" | "malformed" | "empty" | "list"
    embStage,       \* what process_combined_file did in this run: "none" |
                    \* "failed" | "noinput" | "wrote"
    \* ---- start-up: main and NBADatabasePopulator.__init__ (populate.py:43-104, 300-358)
    sPc,            \* position in main and the constructor
    env,            \* the credentials the environment holds
    mode,           \* --mode
    sDirs,          \* the data directories that exist
    sWritten,       \* the files this process has written under the data directories
    sRemote,        \* the remote services this process has called
    sFailure,       \* the failure reported; << >> while none
    \* ---- NBADataProcessor.process_player_data / process_team_data
    \*      (nba/processor.py:787-945), one collected record
    aPc,            \* "idle" | "basic" | "second" | "seasons" | "done"
    aKind,          \* "player" | "team"
    aId,            \* player_id or team_id
    aRecord,        \* the collected file of the entity: "ok" | "unreadable"
    aSeasons,       \* the texts _format_*_season_stats returns for the record
    aDocs,          \* documents: what the loop body has appended
    \* ---- upload_documents of the two NBAMongoDBConnector classes
    \*      (nba/connector.py:170-210, nba_mongodb_connector.py:186-241)
    qIn,            \* the arguments and the outcomes of the store operations
    qNba,           \* what nba/connector.py did: [writes, count]; << >> before
    qLegacy         \* what nba_mongodb_connector.py did: [writes, count]; << >> before

retryVars == <<rPc, max_retries, initial_delay, timeout, takes_timeout, attempt,
               delay, last_exc, rResult, rRaised, rTrace>>

bulkVars == <<dir, mainLog, fetchLog, cacheVal,
             bPc, limit, max_workers, files, filesAtStart, cache, pending, task,
              failedAt, tmp, count, pos, fetched, writes>>

embedVars == <<ePc, eEntry, inFile, outFile, texts, batch_size, retry_limit, eI,
               eAttempt, all_embeddings, eServed, eAttempted, eReturn>>

uploadVars == <<uPc, uEntry, embFile, documents, uBatchSize, clear_first, connected,
                store, indexExists, uI, total_uploaded, uBatches, uLog, uInserted, uReturn,
                searchIndex, uIndexLog, cwdFile, uOps, storeAtStart,
                procFile, embStage>>

startVars == <<sPc, env, mode, sDirs, sWritten, sRemote, sFailure>>

asmVars == <<aPc, aKind, aId, aRecord, aSeasons, aDocs>>

equivVars == <<qIn, qNba, qLegacy>>

vars == <<retryVars, bulkVars, embedVars, uploadVars, startVars, asmVars, equivVars>>

\* What the actions of one component leave alone: the other components.
notRetry == <<bulkVars, embedVars, uploadVars, startVars, asmVars, equivVars>>
notBulk == <<retryVars, embedVars, uploadVars, startVars, asmVars, equivVars>>
notEmbed == <<retryVars, bulkVars, uploadVars, startVars, asmVars, equivVars>>
notUpload == <<retryVars, bulkVars, embedVars, startVars, asmVars, equivVars>>
notStart == <<retryVars, bulkVars, embedVars, uploadVars, asmVars, equivVars>>
notAsm == <<retryVars, bulkVars, embedVars, uploadVars, startVars, equivVars>>
notEquiv == <<retryVars, bulkVars, embedVars, uploadVars, startVars, asmVars>>

(***************************************************************************)
(* Bounds of the model.                                                    *)
(***************************************************************************)
MaxRetriesBound == 5
MaxInitialDelay == 2
\* The bulk driver: the number of listed entities, and the breaker's window
\* and threshold, scaled down from the source's
\* 30 and 10 (players, lines 390-391) and 10 and 5 (teams, lines 431-432).
NumEntities == 3
timeout_window == 2
max_timeouts == 2
\* The embedding batcher: the longest text list, the largest batch size and
\* retry limit of a direct call, and the longest document file.
MaxTexts == 4
MaxBatchSize == 3
MaxRetryLimit == 2
MaxDocs == 12
\* The upload: the longest document list and the largest batch size of a
\* direct call of upload_documents.
MaxUploadDocs == 5
MaxUploadBatch == 2
\* The calls of create_vector_index on one connector.
MaxIndexCalls == 2
\* The assembler: the most season texts of one record.
MaxSeasons == 3

RECURSIVE Pow2(_)
Pow2(n) == IF n = 0 THEN 1 ELSE 2 * Pow2(n - 1)

(***************************************************************************)
(* call_with_retries                                                       *)
(***************************************************************************)
\* The exceptions api_func may raise: the two classes the first except
\* clause names, and any other subclass of Exception.
ExceptionClasses == {"Timeout", "ConnectionError", "Other"}

TimeoutValues == {60}

\* What the except clauses do with an exception of class exc: the mutant
\* re-raises what is neither a timeout nor a connection error.
HandledByFailFast(exc) ==
    IF exc \in {"Timeout", "ConnectionError"} THEN "retry" ELSE "raise"

\* Both clauses (lines 63-67 and 68-72) log, sleep, double the delay and keep
\* the exception: every Exception is retried.
HandledBy(exc) ==
    IF exc \in {"Timeout", "ConnectionError"} THEN "retry" ELSE "retry"

\* The mutant backs off linearly.
NextDelayLinear(d) == d + initial_delay

\* delay *= 2
NextDelay(d) == d * 2

\* The keyword arguments of one call of api_func: timeout is passed only when
\* the function's code object names a variable "timeout".
TimeoutArg == IF takes_timeout THEN {timeout} ELSE {}

CallEvent(outcome) == <<"call", attempt, TimeoutArg, outcome>>
SleepEvent(d) == <<"sleep", d>>

RetryIdle ==
    /\ rPc = "idle"
    /\ max_retries = 0
    /\ initial_delay = 0
    /\ timeout = 0
    /\ takes_timeout = FALSE
    /\ attempt = 0
    /\ delay = 0
    /\ last_exc = << >>
    /\ rResult = << >>
    /\ rRaised = << >>
    /\ rTrace = << >>

\* The state on entry to the loop (lines 53-54).
RetryInit ==
    /\ rPc = "loop"
    /\ max_retries \in 0..MaxRetriesBound
    /\ initial_delay \in 1..MaxInitialDelay
    /\ timeout \in TimeoutValues
    /\ takes_timeout \in BOOLEAN
    /\ attempt = 1
    /\ delay = initial_delay
    /\ last_exc = << >>
    /\ rResult = << >>
    /\ rRaised = << >>
    /\ rTrace = << >>

\* An attempt whose call returns: the wrapper returns its result (lines 56-62).
RetrySuccess ==
    /\ rPc = "loop"
    /\ attempt <= max_retries
    /\ rTrace' = Append(rTrace, CallEvent("ok"))
    /\ rResult' = <<"result", attempt>>
    /\ rPc' = "returned"
    /\ UNCHANGED <<max_retries, initial_delay, timeout, takes_timeout, attempt,
                   delay, last_exc, rRaised>>
    /\ UNCHANGED notRetry

\* An attempt whose call raises an exception of class exc (lines 63-72).
RetryFailure(exc) ==
    /\ rPc = "loop"
    /\ attempt <= max_retries
    /\ IF HandledBy(exc) = "retry"
       THEN /\ rTrace' = rTrace \o <<CallEvent(exc), SleepEvent(delay)>>
            /\ delay' = NextDelay(delay)
            /\ last_exc' = <<exc, attempt>>
            /\ attempt' = attempt + 1
            /\ UNCHANGED <<rPc, rRaised>>
       ELSE /\ rTrace' = Append(rTrace, CallEvent(exc))
            /\ rRaised' = <<exc, attempt>>
            /\ rPc' = "raised"
            /\ UNCHANGED <<delay, last_exc, attempt>>
    /\ UNCHANGED <<max_retries, initial_delay, timeout, takes_timeout, rResult>>
    /\ UNCHANGED notRetry

\* The loop is exhausted: log and "raise last_exc" (lines 73-74). With
\* max_retries = 0 last_exc is None and the raise statement itself fails
\* with a TypeError.
RetryExhausted ==
    /\ rPc = "loop"
    /\ attempt > max_retries
    /\ rRaised' = IF last_exc = << >> THEN <<"TypeError", 0>> ELSE last_exc
    /\ rPc' = "raised"
    /\ UNCHANGED <<max_retries, initial_delay, timeout, takes_timeout, attempt,
                   delay, last_exc, rResult, rTrace>>
    /\ UNCHANGED notRetry

RetryNext ==
    \/ RetrySuccess
    \/ \E exc \in ExceptionClasses : RetryFailure(exc)
    \/ RetryExhausted

(***************************************************************************)
(* The bulk collection driver: collect_data_for_all_players (lines         *)
(* 354-398). collect_data_for_all_teams (lines 400-439) is the same code   *)
(* over team_<id>.json, team details and team history, with no limit.      *)
(* An entity's two sub-fetches are "info" and "stats". A sub-fetch is one  *)
(* _get_with_cache call around call_with_retries, which SpecRetry models   *)
(* attempt by attempt; here it returns or raises in one step.              *)
(***************************************************************************)
\* The default of max_workers (lines 354, 400, 507), which every caller uses.
DefaultMaxWorkers == 2

IDs == 1..NumEntities
SubFetches == {"info", "stats"}
AllKeys == SubFetches \X IDs

\* players.get_players(): the static list, in a fixed order, ids distinct.
all_players == [i \in 1..NumEntities |-> i]

\* "if limit: all_players = all_players[:limit]" (lines 363-364)
Listed ==
    IF limit = 0 THEN all_players
    ELSE SubSeq(all_players, 1, IF limit < NumEntities THEN limit ELSE NumEntities)

\* The mutant scans for a prefix no file has and finds nothing.
AlreadyCollectedNothing == {}

\* _already_collected_ids (lines 338-352): the ids of the files
\* <prefix><id>.json of the output directory, whatever they hold.
AlreadyCollected == {id \in IDs : files[id] # "none"}

\* line 366
players_to_process == SelectSeq(Listed, LAMBDA id : id \notin AlreadyCollected)

Range(seq) == {seq[i] : i \in 1..Len(seq)}

RunningStates == {"jitter", "info_ok", "stats_ok", "failed", "incr"}
FinishedStates == {"written", "errored"}
Running == {id \in IDs : task[id] \in RunningStates}

\* The executor's work queue is FIFO: the next task a free worker takes is
\* the first of players_to_process still queued.
IndexOf(id) == CHOOSE j \in 1..Len(pending) : pending[j] = id

FirstQueued(id) ==
    /\ task[id] = "queued"
    /\ \A j \in 1..(IndexOf(id) - 1) : task[pending[j]] # "queued"

BulkIdle ==
    /\ bPc = "idle"
    /\ limit = 0
    /\ max_workers = 0
    /\ files = << >>
    /\ filesAtStart = << >>
    /\ cache = {}
    /\ pending = << >>
    /\ task = << >>
    /\ failedAt = << >>
    /\ tmp = << >>
    /\ count = 0
    /\ pos = 0
    /\ fetched = << >>
    /\ writes = << >>
    /\ dir = "idle"
    /\ mainLog = << >>
    /\ fetchLog = << >>
    /\ cacheVal = << >>

\* The value an earlier collection by the same collector object left in the
\* cache for a key.
EarlierValue(key) == <<"earlier", key>>

\* The cache a run may start with: empty (a new process) or holding the
\* values of an earlier collection by the same collector object.
CacheChoices == {{}, AllKeys}
LimitChoices == {0, NumEntities - 1}

\* A collector about to run collect_data_for_all_players: any set of entity
\* files left by earlier runs, any worker pool size. The output directory,
\* which the constructor made (line 91), may since have been removed (it
\* then holds no file) or have become unreadable.
BulkInit ==
    /\ bPc = "start"
    /\ dir \in {"ok", "missing", "unlistable"}
    /\ mainLog = << >>
    /\ fetchLog = [id \in IDs |-> << >>]
    /\ limit \in LimitChoices
    /\ max_workers \in 1..DefaultMaxWorkers
    /\ files \in [IDs -> {"none", "complete"}]
    /\ dir = "missing" => \A id \in IDs : files[id] = "none"
    /\ filesAtStart = files
    /\ cache \in CacheChoices
    /\ cacheVal = [key \in AllKeys |-> IF key \in cache THEN EarlierValue(key) ELSE << >>]
    /\ pending = << >>
    /\ task = [id \in IDs |-> "none"]
    /\ failedAt = [id \in IDs |-> ""]
    /\ tmp = [id \in IDs |-> 0]
    /\ count = 0
    /\ pos = 0
    /\ fetched = [id \in IDs |-> {}]
    /\ writes = [id \in IDs |-> 0]

\* _already_collected_ids (lines 338-352) on the directory as it is: a
\* missing directory gives the empty set (lines 343-344); os.listdir of a
\* directory that exists but cannot be listed raises, and nothing catches it.
ScanResult ==
    CASE dir = "missing" -> [raised |-> FALSE, ids |-> {}]
      [] dir = "unlistable" -> [raised |-> TRUE, ids |-> {}]
      [] OTHER -> [raised |-> FALSE, ids |-> AlreadyCollected]

\* collect_all_players (line 362) writes all_players.json into the output
\* directory before the scan (lines 130-131): open raises when the
\* directory is missing. Then the scan of line 365 raises or not.
StartRaises == dir = "missing" \/ ScanResult.raised

\* Lines 362-365 raise: the exception leaves collect_data_for_all_players.
BulkStartRaises ==
    /\ bPc = "start"
    /\ StartRaises
    /\ bPc' = "raised"
    /\ UNCHANGED <<limit, max_workers, files, filesAtStart, cache, pending, task,
                   failedAt, tmp, count, pos, fetched, writes>>
    /\ UNCHANGED <<dir, mainLog, fetchLog, cacheVal>>
    /\ UNCHANGED notBulk

\* Lines 362-369 and 389-393: list, scan the checkpoint files, return when
\* nothing is left, else reset the counter and submit every remaining entity
\* to the pool (executor.map submits all its tasks before yielding).
BulkStart ==
    /\ bPc = "start"
    /\ ~StartRaises
    /\ pending' = players_to_process
    /\ IF players_to_process = << >>
       THEN /\ bPc' = "returned"
            /\ UNCHANGED <<task, pos>>
       ELSE /\ bPc' = "iter"
            /\ task' = [id \in IDs |->
                          IF id \in Range(players_to_process) THEN "queued" ELSE "none"]
            /\ pos' = 1
    /\ count' = 0
    /\ UNCHANGED <<limit, max_workers, files, filesAtStart, cache, failedAt, tmp,
                   fetched, writes>>
    /\ UNCHANGED <<dir, mainLog, fetchLog, cacheVal>>
    /\ UNCHANGED notBulk

\* A free worker takes the next queued task and sleeps its jitter (line 374).
WorkerStart(id) ==
    /\ FirstQueued(id)
    /\ Cardinality(Running) < max_workers
    /\ task' = [task EXCEPT ![id] = "jitter"]
    /\ UNCHANGED <<bPc, limit, max_workers, files, filesAtStart, cache, pending,
                   failedAt, tmp, count, pos, fetched, writes>>
    /\ UNCHANGED <<dir, mainLog, fetchLog, cacheVal>>
    /\ UNCHANGED notBulk

\* The mutant never finds a key in the cache.
CachedNever(key) == FALSE

\* line 108: "if cache_key in self.cache"
Cached(key) == key \in cache

\* What a _get_with_cache call does besides returning: nothing on a hit
\* (line 109); on a miss time.sleep(0.6) (line 111), then fetch_func (114).
HitEvents(sub) == << <<"hit", sub>> >>
MissEvents(sub, outcome) == << <<"sleep", "0.6">>, <<"fetch", sub, outcome>> >>

\* What the remote fetch for a key returns when it succeeds: the value of
\* this fetch, the n-th event of the entity's log.
FetchedValue(key) == <<"fetched", key, Len(fetchLog[key[2]]) + 2>>

\* The mutant caches a marker for a fetch that raised.
StoredAfterAlways(key, outcome) ==
    [cacheVal EXCEPT ![key] = IF outcome = "ok" THEN FetchedValue(key) ELSE <<"error", key>>]

\* Lines 113-119: "self.cache[cache_key] = data" follows the fetch inside
\* the try, so a fetch that raised stores nothing.
StoredAfter(key, outcome) ==
    IF outcome = "ok" THEN [cacheVal EXCEPT ![key] = FetchedValue(key)] ELSE cacheVal

\* One sub-fetch through _get_with_cache (lines 108-119): a hit returns the
\* cached value without a remote call; a miss sleeps, then issues the remote
\* call, which returns (the value is cached) or raises after its retries.
SubFetch(id, sub, from, to) ==
    /\ task[id] = from
    /\ \/ /\ Cached(<<sub, id>>)
          /\ fetchLog' = [fetchLog EXCEPT ![id] = @ \o HitEvents(sub)]
          /\ task' = [task EXCEPT ![id] = to]
          /\ UNCHANGED <<cache, cacheVal, fetched, failedAt>>
       \/ /\ ~Cached(<<sub, id>>)
          /\ fetchLog' = [fetchLog EXCEPT ![id] = @ \o MissEvents(sub, "ok")]
          /\ fetched' = [fetched EXCEPT ![id] = @ \cup {sub}]
          /\ cache' = cache \cup {<<sub, id>>}
          /\ cacheVal' = StoredAfter(<<sub, id>>, "ok")
          /\ task' = [task EXCEPT ![id] = to]
          /\ UNCHANGED failedAt
       \/ /\ ~Cached(<<sub, id>>)
          /\ fetchLog' = [fetchLog EXCEPT ![id] = @ \o MissEvents(sub, "raised")]
          /\ fetched' = [fetched EXCEPT ![id] = @ \cup {sub}]
          /\ failedAt' = [failedAt EXCEPT ![id] = sub]
          /\ task' = [task EXCEPT ![id] = "failed"]
          /\ cacheVal' = StoredAfter(<<sub, id>>, "raised")
          /\ UNCHANGED cache
    /\ UNCHANGED <<bPc, limit, max_workers, files, filesAtStart, pending, tmp,
                   count, pos, writes>>
    /\ UNCHANGED <<dir, mainLog>>
    /\ UNCHANGED notBulk

\* line 375: collect_player_info
FetchInfo(id) == SubFetch(id, "info", "jitter", "info_ok")

\* line 376: collect_player_career_stats
FetchStats(id) == SubFetch(id, "stats", "info_ok", "stats_ok")

\* The mutant writes the file as soon as the first sub-fetch has returned.
ReadyToWriteEarly(id) == task[id] \in {"info_ok", "stats_ok"}

\* The file is opened at line 377, after both sub-fetches have returned.
ReadyToWrite(id) == task[id] = "stats_ok"

\* Lines 377-383: open the file for writing and dump the record. open may
\* raise (nothing is created); json.dump or the close may raise after open
\* has created or truncated the file.
WriteFile(id) ==
    /\ ReadyToWrite(id)
    /\ \/ /\ files' = [files EXCEPT ![id] = "complete"]
          /\ writes' = [writes EXCEPT ![id] = @ + 1]
          /\ task' = [task EXCEPT ![id] = "written"]
          /\ UNCHANGED failedAt
       \/ /\ failedAt' = [failedAt EXCEPT ![id] = "open"]
          /\ task' = [task EXCEPT ![id] = "failed"]
          /\ UNCHANGED <<files, writes>>
       \/ /\ files' = [files EXCEPT ![id] = "partial"]
          /\ writes' = [writes EXCEPT ![id] = @ + 1]
          /\ failedAt' = [failedAt EXCEPT ![id] = "dump"]
          /\ task' = [task EXCEPT ![id] = "failed"]
    /\ UNCHANGED <<bPc, limit, max_workers, filesAtStart, cache, pending, tmp,
                   count, pos, fetched>>
    /\ UNCHANGED <<dir, mainLog, fetchLog, cacheVal>>
    /\ UNCHANGED notBulk

\* Lines 384-387: the handler logs, then "timeout_tracker['count'] += 1",
\* which loads the counter here ...
ErrLoad(id) ==
    /\ task[id] = "failed"
    /\ tmp' = [tmp EXCEPT ![id] = count]
    /\ task' = [task EXCEPT ![id] = "incr"]
    /\ UNCHANGED <<bPc, limit, max_workers, files, filesAtStart, cache, pending,
                   failedAt, count, pos, fetched, writes>>
    /\ UNCHANGED <<dir, mainLog, fetchLog, cacheVal>>
    /\ UNCHANGED notBulk

\* ... and stores the loaded value plus one here: nothing makes the two one
\* atomic step.
ErrStore(id) ==
    /\ task[id] = "incr"
    /\ count' = tmp[id] + 1
    /\ tmp' = [tmp EXCEPT ![id] = 0]
    /\ task' = [task EXCEPT ![id] = "errored"]
    /\ UNCHANGED <<bPc, limit, max_workers, files, filesAtStart, cache, pending,
                   failedAt, pos, fetched, writes>>
    /\ UNCHANGED <<dir, mainLog, fetchLog, cacheVal>>
    /\ UNCHANGED notBulk

\* Lines 393-397: the main thread receives the next result in submission
\* order; when it closes a window it compares the counter with the threshold.
MainNext ==
    /\ bPc = "iter"
    /\ pos <= Len(pending)
    /\ task[pending[pos]] \in FinishedStates
    /\ IF pos % timeout_window = 0
       THEN /\ bPc' = IF count >= max_timeouts THEN "break" ELSE "reset"
            /\ UNCHANGED pos
       ELSE /\ pos' = pos + 1
            /\ UNCHANGED bPc
    /\ UNCHANGED <<limit, max_workers, files, filesAtStart, cache, pending, task,
                   failedAt, tmp, count, fetched, writes>>
    /\ UNCHANGED <<dir, mainLog, fetchLog, cacheVal>>
    /\ UNCHANGED notBulk

\* line 398: timeout_tracker['count'] = 0
MainReset ==
    /\ bPc = "reset"
    /\ count' = 0
    /\ pos' = pos + 1
    /\ bPc' = "iter"
    /\ UNCHANGED <<limit, max_workers, files, filesAtStart, cache, pending, task,
                   failedAt, tmp, fetched, writes>>
    /\ UNCHANGED <<dir, mainLog, fetchLog, cacheVal>>
    /\ UNCHANGED notBulk

\* The mutant leaves the queued tasks to the pool, which runs them before
\* shutdown(wait=True) returns.
AfterBreakStillQueued(t) == t

\* A task after the break: the result iterator's finally clause cancels the
\* futures that have not started, a running or finished one is as it was.
AfterBreak(t) == IF t = "queued" THEN "cancelled" ELSE t

\* Lines 396-397: log the abort and break. Leaving the loop drops the
\* result iterator, whose finally clause cancels every future that has not
\* started.
MainBreak ==
    /\ bPc = "break"
    /\ mainLog' = Append(mainLog, "abort")
    /\ task' = [id \in IDs |-> AfterBreak(task[id])]
    /\ bPc' = "shutdown"
    /\ UNCHANGED <<limit, max_workers, files, filesAtStart, cache, pending,
                   failedAt, tmp, count, pos, fetched, writes>>
    /\ UNCHANGED <<dir, fetchLog, cacheVal>>
    /\ UNCHANGED notBulk

\* The loop has received every result.
MainExhausted ==
    /\ bPc = "iter"
    /\ pos > Len(pending)
    /\ bPc' = "shutdown"
    /\ UNCHANGED <<limit, max_workers, files, filesAtStart, cache, pending, task,
                   failedAt, tmp, count, pos, fetched, writes>>
    /\ UNCHANGED <<dir, mainLog, fetchLog, cacheVal>>
    /\ UNCHANGED notBulk

\* The mutant leaves the with block as shutdown(wait=False) would.
StillToWaitForNothing(t) == FALSE

\* A task shutdown(wait=True) waits for: one that is running, or queued and
\* not cancelled.
StillToWaitFor(t) == t \in RunningStates \cup {"queued"}

\* Leaving the with block: shutdown(wait=True) returns once no task is
\* running or queued.
MainShutdown ==
    /\ bPc = "shutdown"
    /\ \A id \in IDs : ~StillToWaitFor(task[id])
    /\ bPc' = "returned"
    /\ UNCHANGED <<limit, max_workers, files, filesAtStart, cache, pending, task,
                   failedAt, tmp, count, pos, fetched, writes>>
    /\ UNCHANGED <<dir, mainLog, fetchLog, cacheVal>>
    /\ UNCHANGED notBulk

\* The mutant is a hard stop: after an abort nothing more is collected.
RemainingStepsNoneAfterAbort ==
    IF \E k \in 1..Len(mainLog) : mainLog[k] = "abort"
    THEN << >> ELSE <<"teams", "league", "games">>

\* run_collection (lines 509-514) after collect_data_for_all_players:
\* collect_data_for_all_teams, collect_league_data, collect_recent_game_data.
RemainingSteps == <<"teams", "league", "games">>

StepsDone == Len(SelectSeq(mainLog, LAMBDA e : e # "abort"))

\* The next step of run_collection runs and returns: each catches the
\* failures of its fetches and writes (lines 413-439, 448-466, 475-498),
\* and the output directory is the one the players were collected into.
RunCollectionStep ==
    /\ bPc = "returned"
    /\ StepsDone < Len(RemainingSteps)
    /\ mainLog' = Append(mainLog, RemainingSteps[StepsDone + 1])
    /\ UNCHANGED <<bPc, limit, max_workers, files, filesAtStart, cache, pending, task,
                   failedAt, tmp, count, pos, fetched, writes>>
    /\ UNCHANGED <<dir, fetchLog, cacheVal>>
    /\ UNCHANGED notBulk

\* run_collection returns and collect_data returns True (populate.py
\* 122-130).
CollectDataTrue ==
    /\ bPc = "returned"
    /\ StepsDone >= Len(RemainingSteps)
    /\ bPc' = "collect_data_true"
    /\ UNCHANGED <<limit, max_workers, files, filesAtStart, cache, pending, task,
                   failedAt, tmp, count, pos, fetched, writes>>
    /\ UNCHANGED <<dir, mainLog, fetchLog, cacheVal>>
    /\ UNCHANGED notBulk

\* The exception leaves run_collection; collect_data catches it and returns
\* False (populate.py 131-133).
CollectDataFalse ==
    /\ bPc = "raised"
    /\ bPc' = "collect_data_false"
    /\ UNCHANGED <<limit, max_workers, files, filesAtStart, cache, pending, task,
                   failedAt, tmp, count, pos, fetched, writes>>
    /\ UNCHANGED <<dir, mainLog, fetchLog, cacheVal>>
    /\ UNCHANGED notBulk

\* run_full_pipeline (populate.py 226-230): after collect_data returned
\* True it calls process_data; after False it returns False.
PipelineAfterCollect ==
    /\ bPc \in {"collect_data_true", "collect_data_false"}
    /\ bPc' = IF bPc = "collect_data_true" THEN "process_data" ELSE "pipeline_false"
    /\ UNCHANGED <<limit, max_workers, files, filesAtStart, cache, pending, task,
                   failedAt, tmp, count, pos, fetched, writes>>
    /\ UNCHANGED <<dir, mainLog, fetchLog, cacheVal>>
    /\ UNCHANGED notBulk

BulkNext ==
    \/ BulkStart
    \/ BulkStartRaises
    \/ \E id \in IDs :
          \/ WorkerStart(id)
          \/ FetchInfo(id)
          \/ FetchStats(id)
          \/ WriteFile(id)
          \/ ErrLoad(id)
          \/ ErrStore(id)
    \/ MainNext
    \/ MainReset
    \/ MainBreak
    \/ MainExhausted
    \/ MainShutdown
    \/ RunCollectionStep
    \/ CollectDataTrue
    \/ CollectDataFalse
    \/ PipelineAfterCollect

(***************************************************************************)
(* The embedding batcher: generate_embeddings_batch (lines 88-138),        *)
(* process_file (140-186) and process_combined_file (213-259), which       *)
(* differ only in the name of the file they write.                         *)
(***************************************************************************)
\* The defaults of generate_embeddings_batch, which process_file and
\* process_combined_file use (lines 89-90, 166, 239).
DefaultBatchSize == 10
DefaultRetryLimit == 3

\* The vector the embedding service produces for a text; the empty list is
\* the placeholder of line 136.
Emb(t) == <<"v", t>>
Placeholder == << >>

\* A processed document, and the texts of a list of documents (line 162).
Doc(t) == [text |-> t]
TextsOf(docs) == [k \in 1..Len(docs) |-> docs[k].text]
DocList(n) == [k \in 1..n |-> Doc(k)]

Min(a, b) == IF a < b THEN a ELSE b

\* texts[i:i+batch_size]
Batch(i) == SubSeq(texts, i + 1, Min(i + batch_size, Len(texts)))

\* The orders in which the service may return the results of one batch.
Orders == {"identity", "reversed", "rotated"}
Permute(seq, order) ==
    LET n == Len(seq) IN
    CASE order = "identity" -> seq
      [] order = "reversed" -> [k \in 1..n |-> seq[n + 1 - k]]
      [] order = "rotated" -> [k \in 1..n |-> seq[((k + n - 2) % n) + 1]]

\* response.data for a batch: one item per input, tagged with the input's
\* index in the batch.
Response(batch, order) ==
    Permute([k \in 1..Len(batch) |-> [index |-> k - 1, embedding |-> Emb(batch[k])]],
            order)

\* sorted(response.data, key=lambda x: x.index): a stable insertion sort.
RECURSIVE InsertByIndex(_, _)
InsertByIndex(sorted, item) ==
    IF sorted = << >> THEN <<item>>
    ELSE IF sorted[Len(sorted)].index <= item.index THEN Append(sorted, item)
    ELSE Append(InsertByIndex(SubSeq(sorted, 1, Len(sorted) - 1), item),
                sorted[Len(sorted)])

RECURSIVE SortedFrom(_, _)
SortedFrom(done, rest) ==
    IF rest = << >> THEN done
    ELSE SortedFrom(InsertByIndex(done, Head(rest)), Tail(rest))

\* The mutant keeps the order of the response.
SortedByIndexUnsorted(data) == data

SortedByIndex(data) == SortedFrom(<< >>, data)

\* lines 119-120
BatchEmbeddings(data) ==
    LET sorted_embeddings == SortedByIndex(data)
    IN  [k \in 1..Len(sorted_embeddings) |-> sorted_embeddings[k].embedding]

\* The mutant keeps every document.
KeepsAll(doc) == TRUE

\* "embedding" in doc (lines 174, 247)
HasEmbedding(doc) == "embedding" \in DOMAIN doc

\* Lines 169-171: documents[i]["embedding"] = embedding, for the embeddings
\* that are not empty.
Attach(docs, embeddings) ==
    [k \in 1..Len(docs) |->
        IF k <= Len(embeddings) /\ embeddings[k] # Placeholder
        THEN [text |-> docs[k].text, embedding |-> embeddings[k]]
        ELSE docs[k]]

\* lines 174, 247
documents_with_embeddings(docs) == SelectSeq(docs, HasEmbedding)

EmbedIdle ==
    /\ ePc = "idle"
    /\ eEntry = "none"
    /\ inFile = [state |-> "absent", docs |-> << >>]
    /\ outFile = [state |-> "absent", docs |-> << >>]
    /\ texts = << >>
    /\ batch_size = 0
    /\ retry_limit = 0
    /\ eI = 0
    /\ eAttempt = 0
    /\ all_embeddings = << >>
    /\ eServed = {}
    /\ eAttempted = {}
    /\ eReturn = << >>

InFiles ==
    {[state |-> st, docs |-> << >>] : st \in {"absent", "malformed"}}
        \cup {[state |-> "list", docs |-> DocList(n)] : n \in 0..MaxDocs}

\* A direct call of generate_embeddings_batch with any parameters, or a call
\* of process_file / process_combined_file on any input file, over an output
\* directory that may hold the file of an earlier run.
EmbedInit ==
    /\ eEntry \in {"generate_embeddings_batch", "process_file", "process_combined_file"}
    /\ IF eEntry = "generate_embeddings_batch"
       THEN /\ ePc = "batch"
            /\ inFile = [state |-> "absent", docs |-> << >>]
            /\ outFile = [state |-> "absent", docs |-> << >>]
            /\ \E n \in 0..MaxTexts : texts = TextsOf(DocList(n))
            /\ batch_size \in 1..MaxBatchSize
            /\ retry_limit \in 0..MaxRetryLimit
       ELSE /\ ePc = "load"
            /\ inFile \in InFiles
            /\ outFile \in {[state |-> st, docs |-> << >>] : st \in {"absent", "stale"}}
            /\ texts = << >>
            /\ batch_size = DefaultBatchSize
            /\ retry_limit = DefaultRetryLimit
    /\ eI = 0
    /\ eAttempt = 0
    /\ all_embeddings = << >>
    /\ eServed = {}
    /\ eAttempted = {}
    /\ eReturn = << >>

\* Lines 152-162: open and parse the file (a missing or malformed file
\* raises, and the handler of lines 184-186 returns []), return [] for an
\* empty list, else extract the texts and call generate_embeddings_batch.
LoadDocuments ==
    /\ ePc = "load"
    /\ IF inFile.state # "list" \/ inFile.docs = << >>
       THEN /\ ePc' = "done"
            /\ UNCHANGED texts
       ELSE /\ texts' = TextsOf(inFile.docs)
            /\ ePc' = "batch"
    /\ UNCHANGED <<eEntry, inFile, outFile, batch_size, retry_limit, eI, eAttempt,
                   all_embeddings, eServed, eAttempted, eReturn>>
    /\ UNCHANGED notEmbed

\* Lines 111-126: an attempt whose embeddings.create call returns, with the
\* results in some order.
BatchAttemptReturns(order) ==
    /\ ePc = "batch"
    /\ eI < Len(texts)
    /\ eAttempt < retry_limit
    /\ all_embeddings' = all_embeddings \o BatchEmbeddings(Response(Batch(eI), order))
    /\ eServed' = eServed \cup {<<eI, order>>}
    /\ eAttempted' = eAttempted \cup {eI}
    /\ eI' = eI + batch_size
    /\ eAttempt' = 0
    /\ UNCHANGED <<ePc, eEntry, inFile, outFile, texts, batch_size, retry_limit, eReturn>>
    /\ UNCHANGED notEmbed

\* Lines 127-136: an attempt whose call raises; the last one of the batch
\* appends one placeholder per text of the batch.
BatchAttemptRaises ==
    /\ ePc = "batch"
    /\ eI < Len(texts)
    /\ eAttempt < retry_limit
    /\ eAttempted' = eAttempted \cup {eI}
    /\ IF eAttempt < retry_limit - 1
       THEN /\ eAttempt' = eAttempt + 1
            /\ UNCHANGED <<eI, all_embeddings>>
       ELSE /\ all_embeddings' =
                  all_embeddings \o [k \in 1..Len(Batch(eI)) |-> Placeholder]
            /\ eI' = eI + batch_size
            /\ eAttempt' = 0
    /\ UNCHANGED <<ePc, eEntry, inFile, outFile, texts, batch_size, retry_limit,
                   eServed, eReturn>>
    /\ UNCHANGED notEmbed

\* "for attempt in range(retry_limit)" with retry_limit = 0 has no
\* iteration: the batch is passed over.
BatchNoAttempt ==
    /\ ePc = "batch"
    /\ eI < Len(texts)
    /\ eAttempt >= retry_limit
    /\ eI' = eI + batch_size
    /\ UNCHANGED <<ePc, eEntry, inFile, outFile, texts, batch_size, retry_limit,
                   eAttempt, all_embeddings, eServed, eAttempted, eReturn>>
    /\ UNCHANGED notEmbed

\* line 138: return all_embeddings
BatchesDone ==
    /\ ePc = "batch"
    /\ eI >= Len(texts)
    /\ ePc' = IF eEntry = "generate_embeddings_batch" THEN "done" ELSE "attach"
    /\ UNCHANGED <<eEntry, inFile, outFile, texts, batch_size, retry_limit, eI,
                   eAttempt, all_embeddings, eServed, eAttempted, eReturn>>
    /\ UNCHANGED notEmbed

\* Lines 168-183: attach the embeddings, drop the documents without one,
\* write the file and return the documents; a write that raises leaves what
\* it had written and the handler returns [].
AttachFilterSave ==
    /\ ePc = "attach"
    /\ LET kept == documents_with_embeddings(Attach(inFile.docs, all_embeddings))
       IN  \/ /\ outFile' = [state |-> "written", docs |-> kept]
              /\ eReturn' = kept
           \/ /\ outFile' = [state |-> "partial", docs |-> << >>]
              /\ eReturn' = << >>
    /\ ePc' = "done"
    /\ UNCHANGED <<eEntry, inFile, texts, batch_size, retry_limit, eI, eAttempt,
                   all_embeddings, eServed, eAttempted>>
    /\ UNCHANGED notEmbed

EmbedNext ==
    \/ LoadDocuments
    \/ \E order \in Orders : BatchAttemptReturns(order)
    \/ BatchAttemptRaises
    \/ BatchNoAttempt
    \/ BatchesDone
    \/ AttachFilterSave

(***************************************************************************)
(* The upload: NBAMongoDBConnector.upload_documents (connector.py lines    *)
(* 170-210) with connect, clear_collection, check_vector_index and         *)
(* create_vector_index (69-168), upload_file (212-245), and the entry      *)
(* points of NBADatabasePopulator (populate.py 106-297), whose collection  *)
(* and processing stages succeed or fail as a whole here.                  *)
(***************************************************************************)
\* batch_size of upload_documents when upload_file calls it (line 171, 242).
DefaultUploadBatch == 100

\* The embedding of a document of a file: of the index's dimension, absent,
\* empty, or of another length.
EmbKinds == {"ok", "missing", "empty", "short"}
UDoc(k, kind) == [id |-> k, emb |-> kind]

\* The document lists of the model: documents 1..n, all with a good
\* embedding or one of them without.
DocLists ==
    {[k \in 1..n |-> UDoc(k, "ok")] : n \in 0..MaxUploadDocs}
        \cup {[k \in 1..n |-> UDoc(k, IF k = bad[1] THEN bad[2] ELSE "ok")] :
                 n \in 1..MaxUploadDocs,
                 bad \in (1..MaxUploadDocs) \X (EmbKinds \ {"ok"})}

\* The lists whose documents all carry a good embedding.
OkLists == {[k \in 1..n |-> UDoc(k, "ok")] : n \in 0..MaxUploadDocs}

\* What process_combined_file writes: documents that all carry an embedding.
EmbeddedLists == {[k \in 1..n |-> UDoc(k, "ok")] : n \in 0..2}

\* The three run_* methods of NBADatabasePopulator, which use the MongoDB
\* connector (populate.py 22, 79-84).
PipelineEntries == {"run_full_pipeline", "run_from_processed_data", "run_from_embeddings"}

\* The methods of NBATursoConnector.
TursoEntries == {"turso_upload_documents", "turso_upload_file"}

\* The entries that read the embedded-data file.
FileEntries == PipelineEntries \cup {"upload_file", "turso_upload_file"}

Entries ==
    PipelineEntries \cup TursoEntries
        \cup {"upload_documents", "upload_file", "create_vector_index"}

\* The entries that run the embedding stage.
EmbeddingEntries == {"run_full_pipeline", "run_from_processed_data"}

\* What all_processed_data.json may be when process_combined_file opens it
\* (nba_embeddings_generator.py 226-231): missing, not readable, not JSON,
\* an empty list, or a list of documents.
ProcFileStates == {"absent", "unreadable", "malformed", "empty", "list"}

UploadIdle ==
    /\ uPc = "idle"
    /\ uEntry = "none"
    /\ embFile = [state |-> "absent", docs |-> << >>]
    /\ documents = << >>
    /\ uBatchSize = 0
    /\ clear_first = FALSE
    /\ connected = FALSE
    /\ store = << >>
    /\ indexExists = FALSE
    /\ uI = 0
    /\ total_uploaded = 0
    /\ uBatches = << >>
    /\ uLog = << >>
    /\ uInserted = << >>
    /\ uReturn = << >>
    /\ searchIndex = FALSE
    /\ uIndexLog = << >>
    /\ cwdFile = [state |-> "absent", docs |-> << >>]
    /\ uOps = {}
    /\ storeAtStart = << >>
    /\ procFile = "absent"
    /\ embStage = "none"

NoFile == [state |-> "absent", docs |-> << >>]

\* What a file named all_embedded_data.json may hold.
FileChoices ==
    {[state |-> st, docs |-> << >>] : st \in {"absent", "malformed", "notlist"}}
        \cup {[state |-> "list", docs |-> d] : d \in {l \in DocLists : Len(l) <= 2}}

\* A populator whose construction succeeded and whose entry point is about
\* to run, over any embedded-data file and store; or a connector one of
\* whose methods is called directly: upload_documents with any number of
\* documents (the MongoDB connector does not look into them) and batch size, upload_file over any file, create_vector_index on a
\* connector that has connected.
UploadInit ==
    /\ uEntry \in Entries
    /\ clear_first \in (IF uEntry = "create_vector_index" THEN {FALSE} ELSE BOOLEAN)
    /\ indexExists \in (IF uEntry \in TursoEntries THEN {FALSE} ELSE BOOLEAN)
    /\ searchIndex \in (IF uEntry \in TursoEntries THEN {FALSE} ELSE BOOLEAN)
    /\ store \in {<< >>, <<UDoc(0, "ok")>>}
    /\ storeAtStart = store
    /\ uPc = CASE uEntry \in PipelineEntries -> "check_env"
              [] uEntry = "upload_file" -> "upload_file"
              [] uEntry = "upload_documents" -> "connect"
              [] uEntry = "create_vector_index" -> "index_call"
              [] uEntry = "turso_upload_file" -> "t_upload_file"
              [] uEntry = "turso_upload_documents" -> "t_start"
    /\ IF uEntry \in {"upload_documents", "turso_upload_documents"}
       THEN /\ documents \in (IF uEntry = "upload_documents" THEN OkLists ELSE DocLists)
            /\ uBatchSize \in 1..MaxUploadBatch
       ELSE /\ documents = << >>
            /\ uBatchSize = 0
    /\ embFile \in (IF uEntry \in FileEntries THEN FileChoices ELSE {NoFile})
    /\ cwdFile \in (IF uEntry \in FileEntries \ TursoEntries
                    THEN {NoFile, [state |-> "list", docs |-> <<UDoc(9, "ok")>>]}
                    ELSE {NoFile})
    /\ connected = (uEntry = "create_vector_index")
    /\ uOps = (IF uEntry = "create_vector_index" THEN {"connect"} ELSE {})
    /\ uLog = (IF uEntry = "create_vector_index"
               THEN << <<"info", "Connected">> >> ELSE << >>)
    /\ uI = 0
    /\ total_uploaded = 0
    /\ uBatches = << >>
    /\ uInserted = << >>
    /\ uReturn = << >>
    /\ uIndexLog = << >>
    /\ procFile \in (IF uEntry \in EmbeddingEntries THEN ProcFileStates ELSE {"absent"})
    /\ embStage = "none"

\* check_environment_variables (populate.py 88-104, 223, 261, 288): both
\* variables were set when the constructor ran, so the check passes.
CheckEnvironment ==
    /\ uPc = "check_env"
    /\ uPc' = CASE uEntry = "run_full_pipeline" -> "collect"
                [] uEntry = "run_from_processed_data" -> "embed"
                [] OTHER -> "upload_file"
    /\ UNCHANGED <<uEntry, embFile, documents, uBatchSize, clear_first, connected,
                   store, indexExists, uI, total_uploaded, uBatches, uLog, uInserted, uReturn>>
    /\ UNCHANGED <<searchIndex, uIndexLog, cwdFile, uOps, storeAtStart>>
    /\ UNCHANGED <<procFile, embStage>>
    /\ UNCHANGED notUpload

\* A stage that returns True, or False when something in it raised:
\* collect_data (populate.py 106-133, 226-228) and process_data (135-156,
\* 230-232).
StageRuns(at, next) ==
    /\ uPc = at
    /\ \/ /\ uPc' = next
          /\ UNCHANGED uReturn
       \/ /\ uPc' = "returned"
          /\ uReturn' = <<FALSE>>
    /\ UNCHANGED <<uEntry, embFile, documents, uBatchSize, clear_first, connected,
                   store, indexExists, uI, total_uploaded, uBatches, uLog, uInserted>>
    /\ UNCHANGED <<searchIndex, uIndexLog, cwdFile, uOps, storeAtStart>>
    /\ UNCHANGED <<procFile, embStage>>
    /\ UNCHANGED notUpload

CollectData == StageRuns("collect", "process")

\* process_data (populate.py 135-156, 230-232): process_all_data writes
\* all_processed_data.json last (processor.py 1077-1079) and process_data
\* returns True; or something in it raised, the file is as it was or
\* half-written, and process_data returns False.
ProcessData ==
    /\ uPc = "process"
    /\ \/ /\ uPc' = "embed"
          /\ procFile' \in {"empty", "list"}
          /\ UNCHANGED uReturn
       \/ /\ uPc' = "returned"
          /\ uReturn' = <<FALSE>>
          /\ procFile' \in {procFile, "malformed"}
    /\ UNCHANGED <<uEntry, embFile, documents, uBatchSize, clear_first, connected,
                   store, indexExists, uI, total_uploaded, uBatches, uLog, uInserted>>
    /\ UNCHANGED <<searchIndex, uIndexLog, cwdFile, uOps, storeAtStart, embStage>>
    /\ UNCHANGED notUpload

\* What process_combined_file (nba_embeddings_generator.py 213-259) does
\* over the processed file: open or json.load raises and the except returns
\* [] (223-226, 257-259); an empty list returns [] (228-230); else the
\* documents that got an embedding are written, or the write raises and
\* leaves a half-written file.
EmbedOutcomes ==
    CASE procFile \in {"absent", "unreadable", "malformed"} ->
            {[stage |-> "failed", file |-> embFile]}
      [] procFile = "empty" ->
            {[stage |-> "noinput", file |-> embFile]}
      [] OTHER ->
            {[stage |-> "wrote", file |-> [state |-> "list", docs |-> d]] :
                 d \in EmbeddedLists}
              \cup {[stage |-> "failed", file |-> [state |-> "malformed", docs |-> << >>]]}

\* generate_embeddings (populate.py 158-176) discards what
\* process_combined_file returns and returns True unless an exception
\* reaches it, and process_combined_file lets none out: the upload is next.
AfterEmbedding(stage) == "upload_file"

\* generate_embeddings (populate.py 158-176, 234-236, 264-266).
GenerateEmbeddings ==
    /\ uPc = "embed"
    /\ \E o \in EmbedOutcomes :
          /\ embFile' = o.file
          /\ embStage' = o.stage
          /\ uPc' = AfterEmbedding(o.stage)
          /\ uReturn' = (IF AfterEmbedding(o.stage) = "returned" THEN <<FALSE>> ELSE uReturn)
    /\ UNCHANGED <<uEntry, documents, uBatchSize, clear_first, connected, store,
                   indexExists, uI, total_uploaded, uBatches, uLog, uInserted>>
    /\ UNCHANGED <<searchIndex, uIndexLog, cwdFile, uOps, storeAtStart, procFile>>
    /\ UNCHANGED notUpload

\* What the entry point returns for the count upload_documents or
\* upload_file returned: upload_to_database is "uploaded > 0" (populate.py
\* 192-201), and the run_* methods return its result.
Returned(n) == IF uEntry \in PipelineEntries THEN <<n > 0>> ELSE <<n>>

\* The mutant passes every list on, the empty one too.
UploadableAnyList(file) == file.state = "list"

\* upload_file lines 233-241: the file parses, holds a list and the list is
\* not empty.
Uploadable(file) == file.state = "list" /\ file.docs # << >>

\* upload_file lines 225-232: the file of data_dir, or when there is none
\* the file of that name in the current directory.
FoundFile == IF embFile.state # "absent" THEN embFile ELSE cwdFile

\* upload_file (connector.py 212-245), called directly or by
\* upload_combined_file for upload_to_database: a file that is missing in
\* both places, does not parse, is no list or is empty returns 0; else
\* upload_documents(documents, clear_first).
UploadFile ==
    /\ uPc = "upload_file"
    /\ IF Uploadable(FoundFile)
       THEN /\ documents' = FoundFile.docs
            /\ uBatchSize' = DefaultUploadBatch
            /\ uPc' = "connect"
            /\ UNCHANGED uReturn
       ELSE /\ uReturn' = Returned(0)
            /\ uPc' = "returned"
            /\ UNCHANGED <<documents, uBatchSize>>
    /\ UNCHANGED <<uEntry, embFile, clear_first, connected, store, indexExists, uI,
                   total_uploaded, uBatches, uLog, uInserted>>
    /\ UNCHANGED <<searchIndex, uIndexLog, cwdFile, uOps, storeAtStart>>
    /\ UNCHANGED <<procFile, embStage>>
    /\ UNCHANGED notUpload

\* connect (69-85) at lines 185-186: True, or False and upload_documents
\* returns 0.
Connect ==
    /\ uPc = "connect"
    /\ uOps' = uOps \cup {"connect"}
    /\ \/ /\ connected' = TRUE
          /\ uLog' = Append(uLog, <<"info", "Connected">>)
          /\ uPc' = IF clear_first THEN "clear" ELSE "check_index"
          /\ UNCHANGED uReturn
       \/ /\ uLog' = Append(uLog, <<"error", "Error connecting">>)
          /\ uReturn' = Returned(0)
          /\ uPc' = "returned"
          /\ UNCHANGED connected
    /\ UNCHANGED <<uEntry, embFile, documents, uBatchSize, clear_first, store,
                   indexExists, uI, total_uploaded, uBatches, uInserted>>
    /\ UNCHANGED <<searchIndex, uIndexLog, cwdFile, storeAtStart>>
    /\ UNCHANGED <<procFile, embStage>>
    /\ UNCHANGED notUpload

\* clear_collection (153-168) at lines 187-188: delete_many empties the
\* collection, or raises and the error is logged.
ClearCollection ==
    /\ uPc = "clear"
    /\ uOps' = uOps \cup {"clear"}
    /\ \/ store' = << >>
       \/ UNCHANGED store
    /\ uPc' = "check_index"
    /\ UNCHANGED <<uEntry, embFile, documents, uBatchSize, clear_first, connected,
                   indexExists, uI, total_uploaded, uBatches, uLog, uInserted, uReturn>>
    /\ UNCHANGED <<searchIndex, uIndexLog, cwdFile, storeAtStart>>
    /\ UNCHANGED <<procFile, embStage>>
    /\ UNCHANGED notUpload

\* check_vector_index (95-113): True when list_indexes returns and lists an
\* index named index_name; False when it lists none or raises. list_indexes
\* lists the collection's ordinary indexes, not its search indexes.
CheckFinds(listOk) == listOk /\ indexExists

CheckMessage(listOk) ==
    IF ~listOk THEN <<"error", "Error checking vector index">>
    ELSE IF indexExists THEN <<"info", "Vector index exists">>
    ELSE <<"warning", "Vector index does not exist">>

\* create_vector_index (115-151): nothing to do when its check finds the
\* index; else it sends create_search_index, which creates the search index
\* or raises (the store refuses a second search index of the same name),
\* and an exception is logged and makes the result False.
Requested(listOk) == ~CheckFinds(listOk)
Created(listOk, createOk) == Requested(listOk) /\ createOk /\ ~searchIndex
IndexResult(listOk, createOk) == CheckFinds(listOk) \/ Created(listOk, createOk)

IndexCall(listOk, createOk) ==
    [found |-> CheckFinds(listOk), requested |-> Requested(listOk),
     existed |-> searchIndex, result |-> IndexResult(listOk, createOk)]

CreateMessages(listOk, createOk) ==
    <<CheckMessage(listOk)>>
        \o (IF ~Requested(listOk) THEN << >>
            ELSE IF Created(listOk, createOk) THEN << <<"info", "Created vector index">> >>
            ELSE << <<"error", "Error creating vector index">> >>)

\* The mutant gives the upload up when the index could not be ensured.
AfterIndexStepGiveUp(result) == IF result THEN "batches" ELSE "returned"

\* Lines 189-195: whatever the index step returned or raised, the loop
\* over the batches is next.
AfterIndexStep(result) == "batches"

\* Lines 189-193: check_vector_index, whose result is dropped, then
\* create_vector_index.
EnsureIndex(listOk1, listOk2, createOk) ==
    /\ uPc = "check_index"
    /\ uIndexLog' = Append(uIndexLog, IndexCall(listOk2, createOk))
    /\ searchIndex' = (searchIndex \/ Created(listOk2, createOk))
    /\ uOps' = uOps \cup {"list_indexes"}
                    \cup (IF Requested(listOk2) THEN {"create_index"} ELSE {})
    /\ uLog' = uLog \o <<CheckMessage(listOk1)>> \o CreateMessages(listOk2, createOk)
    /\ uPc' = AfterIndexStep(IndexResult(listOk2, createOk))
    /\ UNCHANGED <<uEntry, embFile, documents, uBatchSize, clear_first, connected,
                   store, indexExists, uI, total_uploaded, uBatches, uInserted, uReturn>>
    /\ UNCHANGED <<cwdFile, storeAtStart>>
    /\ UNCHANGED <<procFile, embStage>>
    /\ UNCHANGED notUpload

\* create_vector_index called on a connected connector, up to
\* MaxIndexCalls times.
CreateVectorIndexCall(listOk, createOk) ==
    /\ uPc = "index_call"
    /\ Len(uIndexLog) < MaxIndexCalls
    /\ uIndexLog' = Append(uIndexLog, IndexCall(listOk, createOk))
    /\ searchIndex' = (searchIndex \/ Created(listOk, createOk))
    /\ uOps' = uOps \cup {"list_indexes"}
                    \cup (IF Requested(listOk) THEN {"create_index"} ELSE {})
    /\ uLog' = uLog \o CreateMessages(listOk, createOk)
    /\ UNCHANGED <<uPc, uEntry, embFile, documents, uBatchSize, clear_first, connected,
                   store, indexExists, uI, total_uploaded, uBatches, uInserted, uReturn>>
    /\ UNCHANGED <<cwdFile, storeAtStart>>
    /\ UNCHANGED <<procFile, embStage>>
    /\ UNCHANGED notUpload

\* documents[i:i+batch_size]
UBatch == SubSeq(documents, uI + 1, Min(uI + uBatchSize, Len(documents)))

\* i//batch_size + 1 of the log messages
BatchNumber == (uI \div uBatchSize) + 1

\* The mutant has no handler in the loop: the exception reaches the handler
\* of lines 206-208, which returns 0.
InsertErrorGoesToOuterHandler == "outer"

\* The handler of an insert_many that raises: lines 202-203, inside the loop.
InsertErrorHandler == "inner"

\* Lines 195-201: insert_many(batch) returns; every document of the batch
\* is in the collection and counted.
InsertBatchReturns ==
    /\ uPc = "batches"
    /\ uI < Len(documents)
    /\ store' = store \o UBatch
    /\ uInserted' = uInserted \o UBatch
    /\ total_uploaded' = total_uploaded + Len(UBatch)
    /\ uBatches' = Append(uBatches, [start |-> uI, size |-> Len(UBatch), outcome |-> "ok"])
    /\ uLog' = Append(uLog, <<"info", "Uploaded batch", BatchNumber>>)
    /\ uI' = uI + uBatchSize
    /\ UNCHANGED <<uPc, uEntry, embFile, documents, uBatchSize, clear_first, connected,
                   indexExists, uReturn>>
    /\ uOps' = uOps \cup {"insert"}
    /\ UNCHANGED <<searchIndex, uIndexLog, cwdFile, storeAtStart>>
    /\ UNCHANGED <<procFile, embStage>>
    /\ UNCHANGED notUpload

\* Lines 202-203: insert_many(batch) raises; an ordered insert has written
\* the documents before the one it failed on. The error is logged and the
\* loop goes on.
InsertBatchRaises(written) ==
    /\ uPc = "batches"
    /\ uI < Len(documents)
    /\ written < Len(UBatch)
    /\ store' = store \o SubSeq(UBatch, 1, written)
    /\ uInserted' = uInserted \o SubSeq(UBatch, 1, written)
    /\ uBatches' = Append(uBatches, [start |-> uI, size |-> Len(UBatch), outcome |-> "raised"])
    /\ uLog' = Append(uLog, IF InsertErrorHandler = "inner"
                              THEN <<"error", "Error uploading batch", BatchNumber>>
                              ELSE <<"error", "Error uploading documents">>)
    /\ IF InsertErrorHandler = "inner"
       THEN /\ uI' = uI + uBatchSize
            /\ UNCHANGED <<uPc, uReturn, connected>>
       ELSE /\ uReturn' = Returned(0)
            /\ uPc' = "returned"
            /\ connected' = FALSE
            /\ UNCHANGED uI
    /\ UNCHANGED <<uEntry, embFile, documents, uBatchSize, clear_first, indexExists,
                   total_uploaded>>
    /\ uOps' = uOps \cup {"insert"}
    /\ UNCHANGED <<searchIndex, uIndexLog, cwdFile, storeAtStart>>
    /\ UNCHANGED <<procFile, embStage>>
    /\ UNCHANGED notUpload

\* Lines 204-210: return total_uploaded; the finally clause disconnects.
UploadReturns ==
    /\ uPc = "batches"
    /\ uI >= Len(documents)
    /\ uLog' = Append(uLog, <<"info", "Uploaded documents", total_uploaded>>)
    /\ uReturn' = Returned(total_uploaded)
    /\ connected' = FALSE
    /\ uPc' = "returned"
    /\ UNCHANGED <<uEntry, embFile, documents, uBatchSize, clear_first, store,
                   indexExists, uI, total_uploaded, uBatches, uInserted>>
    /\ UNCHANGED <<searchIndex, uIndexLog, cwdFile, uOps, storeAtStart>>
    /\ UNCHANGED <<procFile, embStage>>
    /\ UNCHANGED notUpload

(***************************************************************************)
(* NBATursoConnector (connector_turso.py): upload_file (170-184) and       *)
(* upload_documents (134-167) with connect (63-94), clear_collection       *)
(* (105-115) and _insert_document (117-132).                               *)
(***************************************************************************)
\* upload_file: a file of data_dir that is missing, does not parse or is no
\* list returns 0; any list, the empty one too, goes to upload_documents.
TursoUploadFile ==
    /\ uPc = "t_upload_file"
    /\ IF embFile.state = "list"
       THEN /\ documents' = embFile.docs
            /\ uBatchSize' = DefaultUploadBatch
            /\ uPc' = "t_start"
            /\ UNCHANGED uReturn
       ELSE /\ uReturn' = Returned(0)
            /\ uPc' = "returned"
            /\ UNCHANGED <<documents, uBatchSize>>
    /\ UNCHANGED <<uEntry, embFile, clear_first, connected, store, indexExists, uI,
                   total_uploaded, uBatches, uLog, uInserted>>
    /\ UNCHANGED <<searchIndex, uIndexLog, cwdFile, uOps, storeAtStart>>
    /\ UNCHANGED <<procFile, embStage>>
    /\ UNCHANGED notUpload

\* Lines 140-145: no documents returns 0 at once; else connect, which
\* returns False on any failure, and then 0 is returned.
TursoStart ==
    /\ uPc = "t_start"
    /\ IF documents = << >>
       THEN /\ uReturn' = Returned(0)
            /\ uPc' = "returned"
            /\ UNCHANGED <<connected, uLog, uOps>>
       ELSE /\ uOps' = uOps \cup {"connect"}
            /\ \/ /\ connected' = TRUE
                  /\ uLog' = Append(uLog, <<"info", "Connected">>)
                  /\ uPc' = IF clear_first THEN "t_clear" ELSE "t_batches"
                  /\ UNCHANGED uReturn
               \/ /\ uLog' = Append(uLog, <<"error", "Error connecting">>)
                  /\ uReturn' = Returned(0)
                  /\ uPc' = "returned"
                  /\ UNCHANGED connected
    /\ UNCHANGED <<uEntry, embFile, documents, uBatchSize, clear_first, store,
                   indexExists, uI, total_uploaded, uBatches, uInserted>>
    /\ UNCHANGED <<searchIndex, uIndexLog, cwdFile, storeAtStart>>
    /\ UNCHANGED <<procFile, embStage>>
    /\ UNCHANGED notUpload

\* Lines 147-148 and 105-115: DELETE and commit, or an error that is logged.
TursoClear ==
    /\ uPc = "t_clear"
    /\ uOps' = uOps \cup {"clear"}
    /\ \/ store' = << >>
       \/ UNCHANGED store
    /\ uPc' = "t_batches"
    /\ UNCHANGED <<uEntry, embFile, documents, uBatchSize, clear_first, connected,
                   indexExists, uI, total_uploaded, uBatches, uLog, uInserted, uReturn>>
    /\ UNCHANGED <<searchIndex, uIndexLog, cwdFile, storeAtStart>>
    /\ UNCHANGED <<procFile, embStage>>
    /\ UNCHANGED notUpload

\* _insert_document (117-132) raises for a document whose embedding is no
\* list, and its INSERT may raise for any document (those of refused); the
\* loop logs it and goes on (lines 154-158).
TursoAccepted(batch, refused) ==
    SelectSeq(batch, LAMBDA doc : doc.emb # "missing" /\ doc.id \notin refused)

\* line 160: total_uploaded += len(batch)
TursoCounted(batch, refused) == Len(batch)

\* Lines 152-164: one batch. The inserts, then the commit: when it returns
\* the batch is counted; when it raises nothing handles it, the finally
\* clause disconnects and the exception leaves upload_documents.
TursoBatch(refused, commitOk) ==
    /\ uPc = "t_batches"
    /\ uI < Len(documents)
    /\ uOps' = uOps \cup {"insert"}
    /\ IF commitOk
       THEN /\ store' = store \o TursoAccepted(UBatch, refused)
            /\ uInserted' = uInserted \o TursoAccepted(UBatch, refused)
            /\ total_uploaded' = total_uploaded + TursoCounted(UBatch, refused)
            /\ uBatches' = Append(uBatches,
                                  [start |-> uI, size |-> Len(UBatch), outcome |-> "ok"])
            /\ uLog' = Append(uLog, <<"info", "Uploaded batch", BatchNumber>>)
            /\ uI' = uI + uBatchSize
            /\ UNCHANGED <<uPc, connected>>
       ELSE /\ uBatches' = Append(uBatches,
                                  [start |-> uI, size |-> Len(UBatch), outcome |-> "raised"])
            /\ uPc' = "raised"
            /\ connected' = FALSE
            /\ UNCHANGED <<store, uInserted, total_uploaded, uLog, uI>>
    /\ UNCHANGED <<uEntry, embFile, documents, uBatchSize, clear_first, indexExists,
                   uReturn>>
    /\ UNCHANGED <<searchIndex, uIndexLog, cwdFile, storeAtStart>>
    /\ UNCHANGED <<procFile, embStage>>
    /\ UNCHANGED notUpload

\* Lines 165-167: disconnect and return total_uploaded.
TursoReturns ==
    /\ uPc = "t_batches"
    /\ uI >= Len(documents)
    /\ uReturn' = Returned(total_uploaded)
    /\ connected' = FALSE
    /\ uPc' = "returned"
    /\ UNCHANGED <<uEntry, embFile, documents, uBatchSize, clear_first, store,
                   indexExists, uI, total_uploaded, uBatches, uLog, uInserted>>
    /\ UNCHANGED <<searchIndex, uIndexLog, cwdFile, uOps, storeAtStart>>
    /\ UNCHANGED <<procFile, embStage>>
    /\ UNCHANGED notUpload

UploadNext ==
    \/ CheckEnvironment
    \/ CollectData
    \/ ProcessData
    \/ GenerateEmbeddings
    \/ UploadFile
    \/ Connect
    \/ ClearCollection
    \/ \E listOk1, listOk2, createOk \in BOOLEAN : EnsureIndex(listOk1, listOk2, createOk)
    \/ \E listOk, createOk \in BOOLEAN : CreateVectorIndexCall(listOk, createOk)
    \/ InsertBatchReturns
    \/ \E written \in 0..(MaxUploadDocs - 1) : InsertBatchRaises(written)
    \/ UploadReturns
    \/ TursoUploadFile
    \/ TursoStart
    \/ TursoClear
    \/ \E refused \in {{}, {1}}, commitOk \in BOOLEAN : TursoBatch(refused, commitOk)
    \/ TursoReturns

(***************************************************************************)
(* Start-up: main (populate.py 300-358) constructs NBADatabasePopulator    *)
(* (43-86), whose constructor builds the collector, the processor, the     *)
(* embedder and the connector in that order, and calls the run method of   *)
(* the mode, which begins with check_environment_variables (88-104).       *)
(***************************************************************************)
Credentials == {"MONGODB_URI", "OPENAI_API_KEY"}
Modes == {"full", "from_processed", "from_embeddings"}
DataDirs == {"raw", "processed", "embeddings"}

StartIdle ==
    /\ sPc = "idle"
    /\ env = {}
    /\ mode = "none"
    /\ sDirs = {}
    /\ sWritten = {}
    /\ sRemote = {}
    /\ sFailure = << >>

\* The process has parsed its arguments: any of the credentials may be
\* absent, any of the data directories may be left from an earlier run.
StartInit ==
    /\ sPc = "makedirs"
    /\ env \in SUBSET Credentials
    /\ mode \in Modes
    /\ sDirs \in SUBSET DataDirs
    /\ sWritten = {}
    /\ sRemote = {}
    /\ sFailure = << >>

\* A step of the constructor that cannot fail on a missing credential.
StartStep(at, next, dirs, wrote) ==
    /\ sPc = at
    /\ sPc' = next
    /\ sDirs' = sDirs \cup dirs
    /\ sWritten' = sWritten \cup wrote
    /\ UNCHANGED <<env, mode, sRemote, sFailure>>
    /\ UNCHANGED notStart

\* populate.py 68-70: os.makedirs of the three directories.
MakeDirs == StartStep("makedirs", "collector", DataDirs, {})

\* populate.py 72: NBADataCollector(output_dir=raw_data_dir) (collector.py 83-95).
ConstructCollector == StartStep("collector", "all_teams", {"raw"}, {})

\* populate.py 74: collect_all_teams writes all_teams.json from the static
\* team list (collector.py 145-148).
CollectAllTeams == StartStep("all_teams", "all_players", {}, {<<"raw", "all_teams.json">>})

\* populate.py 75: collect_all_players writes all_players.json from the
\* static player list (collector.py 129-132).
CollectAllPlayers ==
    StartStep("all_players", "processor", {}, {<<"raw", "all_players.json">>})

\* populate.py 77: NBADataProcessor makes its output directory and reads the
\* two reference files (processor.py 49-54).
ConstructProcessor == StartStep("processor", "embedder", {"processed"}, {})

\* A component of the constructor that needs a credential: it raises
\* when the variable is absent, and the exception leaves the
\* constructor and main.
StartNeeds(at, next, dirs, var) ==
    /\ sPc = at
    /\ sDirs' = sDirs \cup dirs
    /\ IF var \in env
       THEN /\ sPc' = next
            /\ UNCHANGED sFailure
       ELSE /\ sPc' = "failed"
            /\ sFailure' = <<"raised", var>>
    /\ UNCHANGED <<env, mode, sWritten, sRemote>>
    /\ UNCHANGED notStart

\* populate.py 78: NBAEmbeddingsGenerator makes its output directory and
\* raises without OPENAI_API_KEY (nba_embeddings_generator.py 57-64).
ConstructEmbedder == StartNeeds("embedder", "connector", {"embeddings"}, "OPENAI_API_KEY")

\* populate.py 79-84: NBAMongoDBConnector raises without MONGODB_URI
\* (connector.py 57-61).
ConstructConnector == StartNeeds("connector", "check_env", {}, "MONGODB_URI")

\* check_environment_variables (88-104) at the head of the run method of
\* the mode: False when a credential is absent, and the method returns
\* False.
CheckEnvironmentVariables ==
    /\ sPc = "check_env"
    /\ IF Credentials \subseteq env
       THEN /\ sPc' = "work"
            /\ UNCHANGED sFailure
       ELSE /\ sPc' = "failed"
            /\ sFailure' = <<"False", Credentials \ env>>
    /\ UNCHANGED <<env, mode, sDirs, sWritten, sRemote>>
    /\ UNCHANGED notStart

\* The first stage of the mode starts: the collection calls the statistics
\* service, the embedding stage the embedding service, the upload the
\* destination store.
FirstStage ==
    /\ sPc = "work"
    /\ sPc' = "working"
    /\ sRemote' = sRemote \cup
          {CASE mode = "full" -> "stats"
             [] mode = "from_processed" -> "embeddings"
             [] OTHER -> "destination"}
    /\ UNCHANGED <<env, mode, sDirs, sWritten, sFailure>>
    /\ UNCHANGED notStart

StartNext ==
    \/ MakeDirs
    \/ ConstructCollector
    \/ CollectAllTeams
    \/ CollectAllPlayers
    \/ ConstructProcessor
    \/ ConstructEmbedder
    \/ ConstructConnector
    \/ CheckEnvironmentVariables
    \/ FirstStage

(***************************************************************************)
(* The document assembler: the body of the loop of process_player_data     *)
(* (processor.py 808-859) and of process_team_data (885-936) over one      *)
(* collected record.                                                       *)
(***************************************************************************)
AsmKinds == {"player", "team"}
AsmEntities == {1, 2, 3}

\* The texts of the season formatter (246-307, 459-526): one per season of
\* the record, or the single sentence of a record without seasons or of an
\* unreadable file.
SeasonTexts(record, n) ==
    IF record = "ok" /\ n > 0
    THEN [i \in 1..n |-> <<"season text", i>>]
    ELSE << <<"no season statistics">> >>

AsmIdle ==
    /\ aPc = "idle"
    /\ aKind = "none"
    /\ aId = 0
    /\ aRecord = "none"
    /\ aSeasons = << >>
    /\ aDocs = << >>

\* The loop body starts on one entity id of the directory listing.
AsmInit ==
    /\ aPc = "basic"
    /\ aKind \in AsmKinds
    /\ aId \in AsmEntities
    /\ aRecord \in {"ok", "unreadable"}
    /\ \E n \in 0..MaxSeasons : aSeasons = SeasonTexts(aRecord, n)
    /\ aDocs = << >>

\* What the formatters of the basic-info, career-stats and history documents
\* return (82-178, 180-244, 309-377, 379-457): the text of the record, or
\* the sentence of their except branch; never an empty string.
FormatText(what) ==
    IF aRecord = "ok" THEN <<what, "text", aId>> ELSE <<what, "fallback", aId>>

\* The document the code builds: category, entity_id and season as the
\* dictionary literals of lines 816-826, 833-843, 850-860, 893-903, 910-920
\* and 927-937 give them.
AsmDoc(text, category, season, doc_type) ==
    [text |-> text, category |-> category, entity_id |-> aId, season |-> season,
     doc_type |-> doc_type]

\* The first document: basic info, category "player" and season "career"
\* (816-826), or category "team" and season "all" (893-903).
BasicDoc ==
    IF aKind = "player"
    THEN AsmDoc(FormatText("basic_info"), "player", <<"career">>, "basic_info")
    ELSE AsmDoc(FormatText("basic_info"), "team", <<"all">>, "basic_info")

\* The second document: career stats, category "player_stats" and season
\* "career" (833-843), or the team history, category "team" and season
\* "all" (910-920).
SecondDoc ==
    IF aKind = "player"
    THEN AsmDoc(FormatText("career_stats"), "player_stats", <<"career">>, "career_stats")
    ELSE AsmDoc(FormatText("history"), "team", <<"all">>, "history")

\* The i-th season document, i counted from 0 by enumerate: season
\* f"season_{i}" (850-860, 927-937).
SeasonDoc(i) ==
    AsmDoc(aSeasons[i + 1], IF aKind = "player" THEN "player_stats" ELSE "team_stats",
           <<"season", i>>, "season_stats")

\* "if basic_info: documents.append(...)" (811-826, 888-903).
AppendBasic ==
    /\ aPc = "basic"
    /\ aDocs' = (IF BasicDoc.text # << >> THEN Append(aDocs, BasicDoc) ELSE aDocs)
    /\ aPc' = "second"
    /\ UNCHANGED <<aKind, aId, aRecord, aSeasons>>
    /\ UNCHANGED notAsm

\* "if career_stats: ..." (828-843), "if team_history: ..." (905-920).
AppendSecond ==
    /\ aPc = "second"
    /\ aDocs' = (IF SecondDoc.text # << >> THEN Append(aDocs, SecondDoc) ELSE aDocs)
    /\ aPc' = "seasons"
    /\ UNCHANGED <<aKind, aId, aRecord, aSeasons>>
    /\ UNCHANGED notAsm

SeasonsAppended == Len(SelectSeq(aDocs, LAMBDA d : d.doc_type = "season_stats"))

\* One turn of "for i, stats in enumerate(season_stats)" (845-860, 922-937).
AppendSeason ==
    /\ aPc = "seasons"
    /\ SeasonsAppended < Len(aSeasons)
    /\ aDocs' = Append(aDocs, SeasonDoc(SeasonsAppended))
    /\ UNCHANGED <<aPc, aKind, aId, aRecord, aSeasons>>
    /\ UNCHANGED notAsm

\* The loop body is through with the record.
AsmDone ==
    /\ aPc = "seasons"
    /\ SeasonsAppended = Len(aSeasons)
    /\ aPc' = "done"
    /\ UNCHANGED <<aKind, aId, aRecord, aSeasons, aDocs>>
    /\ UNCHANGED notAsm

AsmNext ==
    \/ AppendBasic
    \/ AppendSecond
    \/ AppendSeason
    \/ AsmDone

(***************************************************************************)
(* upload_documents of the two NBAMongoDBConnector classes, each as the    *)
(* function of its arguments and of the outcomes of the store operations   *)
(* it issues: nba/connector.py 170-210 and nba_mongodb_connector.py        *)
(* 186-241. connect, check_vector_index, create_vector_index and           *)
(* clear_collection are the same code in both files.                       *)
(***************************************************************************)
\* The batches of a call: range(0, len(documents), batch_size).
QBatches(in) == (in.n + in.batch_size - 1) \div in.batch_size
QBatchSize(in, k) == Min(in.batch_size, in.n - (k - 1) * in.batch_size)

EquivIdle ==
    /\ qIn = << >>
    /\ qNba = << >>
    /\ qLegacy = << >>

\* A call: the number of documents, the batch size, clear_first, whether
\* list_indexes shows an index of the configured name, and for each store
\* operation whether it returns (TRUE) or raises: ping, the k-th
\* list_indexes, create_search_index, delete_many, the k-th insert_many.
EquivInit ==
    /\ \E n \in 0..MaxUploadDocs, b \in 1..MaxUploadBatch :
          \E ins \in [1..((n + b - 1) \div b) -> BOOLEAN] :
             \E cf, idx, ping, cr, del \in BOOLEAN, lists \in [1..2 -> BOOLEAN] :
                qIn = [n |-> n, batch_size |-> b, clear_first |-> cf, index |-> idx,
                       ping |-> ping, lists |-> lists, create |-> cr, delete |-> del,
                       inserts |-> ins]
    /\ qNba = << >>
    /\ qLegacy = << >>

\* clear_collection when clear_first is set (lines 187-188; 206-207): one
\* delete_many request, whose failure is caught and logged.
QClearWrites(in) == IF in.clear_first THEN << <<"delete_many">> >> ELSE << >>

\* check_vector_index as the k-th list_indexes call of the run (95-113;
\* 105-126): True when the listing returns and names the index.
QCheck(in, k) == in.lists[k] /\ in.index

\* create_vector_index whose check is the k-th list_indexes call (115-151;
\* 128-167): no request when the check finds the index, else one
\* create_search_index request, and False when it raises.
QCreateWrites(in, k) ==
    IF QCheck(in, k) THEN << >> ELSE << <<"create_search_index">> >>
QCreateResult(in, k) == QCheck(in, k) \/ in.create

\* The insert_many requests of the loop (195-203; 220-232): one per batch,
\* in order, whatever the outcome of the one before.
QInsertWrites(in) ==
    [k \in 1..QBatches(in) |->
        <<"insert_many", (k - 1) * in.batch_size, QBatchSize(in, k)>>]

RECURSIVE QInsertCount(_, _)
QInsertCount(in, k) ==
    IF k = 0 THEN 0
    ELSE QInsertCount(in, k - 1) + (IF in.inserts[k] THEN QBatchSize(in, k) ELSE 0)

\* nba/connector.py 183-210: connect or return 0; clear; check_vector_index
\* and then create_vector_index, both unconditionally and with the results
\* ignored (189-193); the batches.
UploadDocumentsNba(in) ==
    IF ~in.ping THEN [writes |-> << >>, count |-> 0]
    ELSE [writes |-> QClearWrites(in) \o QCreateWrites(in, 2) \o QInsertWrites(in),
          count |-> QInsertCount(in, QBatches(in))]

\* nba_mongodb_connector.py 200-241: connect or return 0; clear;
\* create_vector_index only when check_vector_index returned False, and
\* "return 0" when it returns False too (210-214); the batches.
UploadDocumentsLegacy(in) ==
    IF ~in.ping THEN [writes |-> << >>, count |-> 0]
    ELSE IF QCheck(in, 1)
    THEN [writes |-> QClearWrites(in) \o QInsertWrites(in),
          count |-> QInsertCount(in, QBatches(in))]
    ELSE IF ~QCreateResult(in, 2)
    THEN [writes |-> QClearWrites(in) \o QCreateWrites(in, 2), count |-> 0]
    ELSE [writes |-> QClearWrites(in) \o QCreateWrites(in, 2) \o QInsertWrites(in),
          count |-> QInsertCount(in, QBatches(in))]

\* The call on a connector of nba/connector.py.
RunNba ==
    /\ qIn # << >>
    /\ qNba = << >>
    /\ qNba' = UploadDocumentsNba(qIn)
    /\ UNCHANGED <<qIn, qLegacy>>
    /\ UNCHANGED notEquiv

\* The same call on a connector of nba_mongodb_connector.py.
RunLegacy ==
    /\ qIn # << >>
    /\ qLegacy = << >>
    /\ qLegacy' = UploadDocumentsLegacy(qIn)
    /\ UNCHANGED <<qIn, qNba>>
    /\ UNCHANGED notEquiv

EquivNext ==
    \/ RunNba
    \/ RunLegacy

(***************************************************************************)
(* The specifications.                                                     *)
(***************************************************************************)
InitRetry == RetryInit /\ BulkIdle /\ EmbedIdle /\ UploadIdle /\ StartIdle /\ AsmIdle /\ EquivIdle
NextRetry == RetryNext
SpecRetry == InitRetry /\ [][NextRetry]_vars

Init == BulkInit /\ RetryIdle /\ EmbedIdle /\ UploadIdle /\ StartIdle /\ AsmIdle /\ EquivIdle
Next == BulkNext
Spec == Init /\ [][Next]_vars

\* The bulk driver with its threads scheduled: while the main thread or a
\* worker can take a step, one is taken. Every sleep is finite and every
\* remote attempt returns or raises.
LiveSpec == Spec /\ WF_vars(Next)

InitEmbed == EmbedInit /\ RetryIdle /\ BulkIdle /\ UploadIdle /\ StartIdle /\ AsmIdle /\ EquivIdle
NextEmbed == EmbedNext
SpecEmbed == InitEmbed /\ [][NextEmbed]_vars

InitUpload == UploadInit /\ RetryIdle /\ BulkIdle /\ EmbedIdle /\ StartIdle /\ AsmIdle /\ EquivIdle
NextUpload == UploadNext
SpecUpload == InitUpload /\ [][NextUpload]_vars

InitStart == StartInit /\ RetryIdle /\ BulkIdle /\ EmbedIdle /\ UploadIdle /\ AsmIdle /\ EquivIdle
NextStart == StartNext
SpecStart == InitStart /\ [][NextStart]_vars

InitAsm ==
    AsmInit /\ RetryIdle /\ BulkIdle /\ EmbedIdle /\ UploadIdle /\ StartIdle
        /\ EquivIdle
NextAsm == AsmNext
SpecAsm == InitAsm /\ [][NextAsm]_vars

InitEquiv ==
    EquivInit /\ RetryIdle /\ BulkIdle /\ EmbedIdle /\ UploadIdle /\ StartIdle
        /\ AsmIdle
NextEquiv == EquivNext
SpecEquiv == InitEquiv /\ [][NextEquiv]_vars

(***************************************************************************)
(* Derived views of the trace of call_with_retries.                        *)
(***************************************************************************)
Calls == SelectSeq(rTrace, LAMBDA e : e[1] = "call")
Sleeps == SelectSeq(rTrace, LAMBDA e : e[1] = "sleep")
FailedCalls == SelectSeq(rTrace, LAMBDA e : e[1] = "call" /\ e[4] # "ok")

\* C1: when the operation fails on its first k attempts (0 <= k < max_retries)
\* and succeeds on attempt k+1, the wrapper returns that attempt's result,
\* has called the operation exactly k+1 times and has slept exactly k times,
\* with delays initial_delay*2^0 .. initial_delay*2^(k-1) in that order, one
\* sleep after each failed call and before the next call.
C1_RetryThenSuccess ==
    rPc = "returned" =>
        LET k == Len(FailedCalls) IN
        /\ k < max_retries
        /\ Len(Calls) = k + 1
        /\ rResult = <<"result", k + 1>>
        /\ Len(rTrace) = 2 * k + 1
        /\ \A i \in 1..k :
              /\ rTrace[2 * i - 1][1] = "call"
              /\ rTrace[2 * i - 1][2] = i
              /\ rTrace[2 * i - 1][4] # "ok"
              /\ rTrace[2 * i] = SleepEvent(initial_delay * Pow2(i - 1))
        /\ rTrace[2 * k + 1][1] = "call"
        /\ rTrace[2 * k + 1][2] = k + 1
        /\ rTrace[2 * k + 1][4] = "ok"

\* Four failures, then success on the fifth attempt: sleeps d, 2d, 4d, 8d.
C1_Witness ==
    /\ rPc = "returned"
    /\ max_retries = 5
    /\ Len(FailedCalls) = 4
    /\ Sleeps = <<SleepEvent(initial_delay), SleepEvent(2 * initial_delay),
                  SleepEvent(4 * initial_delay), SleepEvent(8 * initial_delay)>>

\* C2: when every one of the max_retries >= 1 attempts raises, whatever the
\* classes of the exceptions, the operation has been called exactly
\* max_retries times and the wrapper raises the exception of the last
\* attempt; it returns no value, and it never raises before the ceiling.
C2_ExhaustionRaisesLast ==
    /\ (rPc = "raised" /\ max_retries >= 1) =>
          /\ Len(Calls) = max_retries
          /\ Len(FailedCalls) = max_retries
          /\ rRaised = <<Calls[max_retries][4], max_retries>>
          /\ rResult = << >>
    /\ (Len(FailedCalls) = max_retries /\ max_retries >= 1) => rPc # "returned"

\* Every attempt raised, with an exception that is neither a timeout nor a
\* connection error among them.
C2_Witness ==
    /\ rPc = "raised"
    /\ max_retries >= 2
    /\ Len(FailedCalls) = max_retries
    /\ \E i \in 1..max_retries : Calls[i][4] = "Other"
    /\ \E i \in 1..max_retries : Calls[i][4] = "Timeout"
    /\ rRaised[1] = "ConnectionError"

\* C22: backoff sleeps occur only between attempts: when all max_retries
\* attempts have failed and the wrapper propagates the failure it has slept
\* exactly max_retries - 1 times, and no sleep follows the final attempt.
C22_SleepsOnlyBetweenAttempts ==
    (rPc = "raised" /\ max_retries >= 1) =>
        /\ Len(Sleeps) = max_retries - 1
        /\ rTrace[Len(rTrace)][1] = "call"

\* What every call site of the collector passes (lines 166, 183, 200, 217,
\* 235-239, 256, 273, 290, 308-312, 330-334): a lambda without parameters
\* or local variables, whose co_varnames is empty, timeout=60, and the
\* defaults of max_retries and initial_delay.
CollectorCallSite ==
    /\ ~takes_timeout
    /\ timeout = 60
    /\ max_retries = 5
    /\ initial_delay = 2

\* C27: on every attempt of a call the collector issues through
\* call_with_retries, the timeout passed to call_with_retries is handed to
\* the wrapped remote operation.
C27_TimeoutHandedToOperation ==
    CollectorCallSite =>
        \A i \in 1..Len(Calls) : Calls[i][3] = {timeout}

(***************************************************************************)
(* The bulk collection driver: claims.                                     *)
(***************************************************************************)
ListedIDs == Range(Listed)
\* The positions of the main thread between submitting the tasks and
\* leaving the with block (lines 392-398).
InTheLoop == {"iter", "reset", "break", "shutdown"}
HadFile(id) == filesAtStart[id] # "none"

\* C3: a bulk run issues per-entity remote calls and writes entity files
\* only for listed ids that had no file when the run started; an id whose
\* file existed is never submitted, fetched or rewritten, whatever the cache
\* holds; a run that finds a file for every listed id makes no remote call.
C3_ResumeSkipsCollected ==
    /\ \A id \in IDs :
          HadFile(id) =>
             /\ fetched[id] = {}
             /\ writes[id] = 0
             /\ files[id] = filesAtStart[id]
             /\ task[id] = "none"
    /\ \A id \in IDs :
          (fetched[id] # {} \/ writes[id] > 0 \/ task[id] # "none") =>
             id \in ListedIDs /\ ~HadFile(id)
    /\ (\A id \in ListedIDs : HadFile(id)) =>
          /\ \A id \in IDs : fetched[id] = {}
          /\ bPc \notin InTheLoop

\* A finished run that skipped an entity with a file, although the cache was
\* empty, and fetched and wrote another.
C3_Witness ==
    /\ bPc = "returned"
    /\ cache # AllKeys
    /\ \E id \in ListedIDs : HadFile(id) /\ fetched[id] = {}
    /\ \E id \in ListedIDs :
          ~HadFile(id) /\ fetched[id] = SubFetches /\ files[id] = "complete"

\* The entities of the window the check at pos closes, and those that failed.
Window == {pending[j] : j \in (pos - timeout_window + 1)..pos}
WindowFailures == Cardinality({id \in Window : task[id] = "errored"})

\* C4: at the check that closes a window the driver aborts if and only if at
\* least max_timeouts of the window's timeout_window entities failed; with
\* fewer failures it goes on to reset the counter.
C4_BreakerIffWindowFailures ==
    /\ bPc = "break" => WindowFailures >= max_timeouts
    /\ bPc = "reset" => WindowFailures < max_timeouts

\* C10: an entity's file is opened for writing only after both of its
\* sub-fetches have returned (their values are in the cache); an entity one
\* of whose sub-fetches failed has no file created or modified; no file is
\* opened for writing more than once in a run.
C10_FileOnlyOnFullSuccess ==
    \A id \in IDs :
       /\ (writes[id] > 0 \/ files[id] # filesAtStart[id]) =>
             /\ failedAt[id] \notin SubFetches
             /\ \A sub \in SubFetches : <<sub, id>> \in cache
       /\ failedAt[id] \in SubFetches =>
             /\ writes[id] = 0
             /\ files[id] = filesAtStart[id]
       /\ writes[id] <= 1

\* One entity failed in its second sub-fetch after the first had succeeded
\* remotely and has no file, another was written.
C10_Witness ==
    /\ bPc = "returned"
    /\ \E id \in IDs :
          /\ failedAt[id] = "stats"
          /\ fetched[id] = SubFetches
          /\ files[id] = "none"
    /\ \E id \in IDs : writes[id] = 1 /\ files[id] = "complete" /\ ~HadFile(id)

(***************************************************************************)
(* The embedding batcher: claims.                                          *)
(***************************************************************************)
ServedBatches == {s[1] : s \in eServed}
BatchStarts == {b \in 0..Len(texts) : b < Len(texts) /\ b % batch_size = 0}
BatchOf(j) == (j - 1) - ((j - 1) % batch_size)
PositionsOf(b) == (b + 1)..Min(b + batch_size, Len(texts))

\* C5: for every batch the service answered, in whatever order it returned
\* the results, the returned list holds at each position of the batch the
\* embedding produced for the text at that position; this holds for every
\* batch, across batch boundaries, for every batch size >= 1.
C5_OrderPreserved ==
    \A b \in ServedBatches :
       \A j \in PositionsOf(b) :
          /\ j <= Len(all_embeddings)
          /\ all_embeddings[j] = Emb(texts[j])

\* Texts [a, b, c, d] in batches of 3: the first batch came back tagged
\* (2, 0, 1), the second batch was answered too.
C5_Witness ==
    /\ ePc = "done"
    /\ eEntry = "generate_embeddings_batch"
    /\ Len(texts) = 4
    /\ batch_size = 3
    /\ <<0, "rotated">> \in eServed
    /\ 3 \in ServedBatches
    /\ [k \in 1..3 |-> Response(Batch(0), "rotated")[k].index] = <<2, 0, 1>>
    /\ all_embeddings = <<Emb(1), Emb(2), Emb(3), Emb(4)>>

\* C6: generate_embeddings_batch returns as many entries as it was given
\* texts, for every input length, batch size and retry limit; the service
\* is called for every batch, and a batch whose retries are exhausted
\* contributes one empty placeholder per text.
C6_LengthPreserved ==
    ePc \in {"attach", "done"} =>
        /\ Len(all_embeddings) = Len(texts)
        /\ \A b \in BatchStarts :
              /\ b \in eAttempted
              /\ b \notin ServedBatches =>
                    \A j \in PositionsOf(b) :
                       j <= Len(all_embeddings) /\ all_embeddings[j] = Placeholder

\* The documents of the input file whose batch the service answered, each
\* with the embedding of its own text, in input order.
ExpectedEmbedded ==
    LET positions == SelectSeq([j \in 1..Len(inFile.docs) |-> j],
                               LAMBDA j : BatchOf(j) \in ServedBatches)
    IN  [k \in 1..Len(positions) |->
            [text |-> inFile.docs[positions[k]].text,
             embedding |-> Emb(inFile.docs[positions[k]].text)]]

FailedDocs ==
    Cardinality({j \in 1..Len(inFile.docs) : BatchOf(j) \notin ServedBatches})

\* C7: the file process_file / process_combined_file writes holds exactly
\* the input documents whose embedding was generated, in input order, each
\* with its own embedding; the documents whose batch failed for good are
\* dropped; no document of the file lacks an embedding.
C7_OnlyEmbeddedPersisted ==
    outFile.state = "written" =>
        /\ outFile.docs = ExpectedEmbedded
        /\ Len(outFile.docs) = Len(inFile.docs) - FailedDocs
        /\ \A k \in 1..Len(outFile.docs) :
              /\ "embedding" \in DOMAIN outFile.docs[k]
              /\ outFile.docs[k].embedding # Placeholder
        /\ eReturn = outFile.docs

\* Twelve documents, the two of the second batch failed for good: ten are
\* written.
C7_Witness ==
    /\ ePc = "done"
    /\ eEntry = "process_file"
    /\ Len(inFile.docs) = 12
    /\ FailedDocs = 2
    /\ outFile.state = "written"
    /\ Len(outFile.docs) = 10

(***************************************************************************)
(* The bulk collection driver, continued (Spec).                           *)
(***************************************************************************)
\* C11: every entity file on disk holds a complete record, so the ids the
\* checkpoint scan finds are ids of complete files, whatever failed during
\* a write.
C11_FilesAllOrNothing ==
    \A id \in AlreadyCollected : files[id] = "complete"

\* C12: when the output directory cannot be listed, missing or unlistable,
\* the scan yields the empty set without raising and the job goes on with
\* every listed entity instead of failing.
C12_UnlistableIsEmptyCheckpoint ==
    dir \in {"missing", "unlistable"} =>
        /\ ~ScanResult.raised
        /\ ScanResult.ids = {}
        /\ bPc \notin {"raised", "collect_data_false", "pipeline_false"}
        /\ bPc # "start" => pending = Listed

Tripped == \E k \in 1..Len(mainLog) : mainLog[k] = "abort"

\* A failed entity ended in the handler of its own task, no exception left
\* the pool, and a job that returned without an abort processed every entity
\* it had submitted.
FailuresStayInTask ==
    /\ \A id \in IDs : task[id] \in {"failed", "incr", "errored"} => failedAt[id] # ""
    /\ bPc \in InTheLoop \cup {"returned"} => dir = "ok"
    /\ (bPc = "returned" /\ ~Tripped) =>
          \A id \in Range(pending) : task[id] \in FinishedStates

\* The handler of a failed entity raises the counter by exactly one.
IncrementsByOne ==
    \A id \in IDs : (task[id] = "incr" /\ task'[id] = "errored") => count' = count + 1

\* C17: a failure of one entity is caught in its task, raises the error
\* counter by exactly one and never leaves the pool, so the others are still
\* processed unless the breaker trips.
C17_EntityFailuresIndependent ==
    []FailuresStayInTask /\ [][IncrementsByOne]_vars

\* The main thread closes a window: it compares the counter with the
\* threshold (line 395).
WindowCheck == bPc = "iter" /\ bPc' \in {"break", "reset"}

\* C23: the shared error counter is exact under concurrency: at every window
\* check its value is the number of entities of the current window whose
\* processing failed; no increment is lost and no failure of a later window
\* is counted in the current one.
C23_CounterExactAtCheck ==
    [][WindowCheck => count = WindowFailures]_vars

\* An entity whose processing has not started.
NotStarted(id) == task[id] \in {"queued", "cancelled"}

\* No step starts, fetches or writes an entity that has not started.
NotStartedStay ==
    \A id \in IDs :
       NotStarted(id) =>
          /\ task'[id] \in {"queued", "cancelled"}
          /\ fetched'[id] = fetched[id]
          /\ writes'[id] = writes[id]
          /\ files'[id] = files[id]

\* After an abort every pending entity has run to its end, is still in
\* flight, or was cancelled; a cancelled one was not fetched and has no
\* file, so the scan of the next run will not find it.
LeftForResume ==
    Tripped =>
        \A id \in Range(pending) :
           /\ task[id] \in RunningStates \cup FinishedStates \cup {"cancelled"}
           /\ task[id] = "cancelled" =>
                 /\ fetched[id] = {}
                 /\ writes[id] = 0
                 /\ files[id] = "none"
                 /\ id \notin AlreadyCollected

\* The comparison of line 395 has found the counter at the threshold.
TripDecided == bPc = "break" \/ Tripped

\* C24 as stated: from the moment the breaker trips (the comparison of the
\* counter with the threshold succeeds) no entity that had not started is
\* started, fetched or written; the others are left without a file for the
\* next run.
C24_NoStartAfterTrip ==
    []LeftForResume /\ [][TripDecided => NotStartedStay]_vars

\* C24, amended: the same from the moment the loop is left (the abort is
\* logged and the futures that have not started are cancelled); a worker
\* that becomes free between the comparison and the break may still start
\* the next queued entity.
C24_NoStartAfterAbort ==
    []LeftForResume /\ [][Tripped => NotStartedStay]_vars

\* A job that returned after an abort: an entity cancelled without a fetch
\* or a file, another that was in flight and ran to its end.
C24_Witness ==
    /\ Tripped
    /\ bPc = "returned"
    /\ \E id \in Range(pending) :
          task[id] = "cancelled" /\ files[id] = "none" /\ fetched[id] = {}
    /\ \E id \in Range(pending) : task[id] \in FinishedStates

\* The entities after the last full window: the trailing
\* Len(pending) mod timeout_window results.
Trailing ==
    {pending[j] : j \in ((Len(pending) \div timeout_window) * timeout_window + 1)..Len(pending)}

\* C25: the breaker is evaluated only when the number of consumed results is
\* a positive multiple of the window size: a run with fewer pending entities
\* than the window never aborts, and the failures of the trailing entities
\* are never checked against the threshold, so an abort is decided on the
\* failures of the other entities alone.
C25_CheckedAtWindowMultiples ==
    /\ bPc \in {"break", "reset"} => (pos > 0 /\ pos % timeout_window = 0)
    /\ (bPc \in InTheLoop \cup {"returned"} /\ Len(pending) < timeout_window) =>
          ~TripDecided
    /\ TripDecided =>
          Cardinality({id \in Range(pending) \ Trailing : task[id] = "errored"})
              >= max_timeouts

\* The job has returned to run_collection.
JobReturned == bPc \in {"returned", "collect_data_true", "process_data"}

\* The three ways a submitted entity ends: its file written, failed in the
\* handler that counts it, or cancelled by the abort before it started.
EndedWritten(id) ==
    /\ task[id] = "written"
    /\ failedAt[id] = ""
    /\ files[id] = "complete"
    /\ writes[id] = 1
EndedFailed(id) ==
    /\ task[id] = "errored"
    /\ failedAt[id] # ""
    /\ files[id] # "complete"
EndedNotStarted(id) ==
    /\ task[id] = "cancelled"
    /\ Tripped
    /\ fetched[id] = {}
    /\ files[id] = "none"

ExactlyOneEnd(id) ==
    Cardinality({k \in 1..3 : \/ k = 1 /\ EndedWritten(id)
                              \/ k = 2 /\ EndedFailed(id)
                              \/ k = 3 /\ EndedNotStarted(id)}) = 1

\* Each sub-fetch of an entity is one call_with_retries call, issued at most
\* once in the run.
OneCallPerSubFetch(id) ==
    \A sub \in SubFetches :
       Len(SelectSeq(fetchLog[id], LAMBDA e : e[1] = "fetch" /\ e[2] = sub)) <= 1

\* C30: bulk collection terminates: with the threads scheduled and every
\* remote attempt returning or raising, the job eventually returns, and then
\* every pending entity is in exactly one of three states: file written,
\* failed and counted, or never started because the breaker tripped; no
\* sub-fetch of an entity is called more than once, so none is retried above
\* the attempt ceiling of call_with_retries.
C30_BulkTerminates ==
    /\ (dir = "ok") => <>(bPc = "returned")
    /\ [](JobReturned => \A id \in Range(pending) : ExactlyOneEnd(id))
    /\ [](\A id \in IDs : OneCallPerSubFetch(id))

\* A job that returned after an abort: an entity whose second sub-fetch
\* failed after its first had been fetched, each called once, and an entity
\* that never started.
C30_Witness ==
    /\ bPc = "returned"
    /\ \E id \in Range(pending) :
          /\ EndedFailed(id)
          /\ failedAt[id] = "stats"
          /\ fetched[id] = SubFetches
          /\ Len(fetchLog[id]) = 4
    /\ \E id \in Range(pending) : EndedNotStarted(id)

IsPrefix(a, b) == Len(a) <= Len(b) /\ SubSeq(b, 1, Len(a)) = a

\* C18: after a breaker trip the job returns without raising, run_collection
\* runs the teams, league and games steps, collect_data returns True and the
\* pipeline goes on to process_data; no state after a trip is stuck before.
C18_TripIsSoftStop ==
    Tripped =>
        /\ bPc \in {"shutdown", "returned", "collect_data_true", "process_data"}
        /\ IsPrefix(mainLog, <<"abort", "teams", "league", "games">>)
        /\ bPc \in {"collect_data_true", "process_data"} =>
              mainLog = <<"abort", "teams", "league", "games">>
        /\ bPc # "process_data" => ENABLED BulkNext

\* A run whose breaker tripped with entities still queued, which were
\* cancelled, and whose pipeline reached process_data.
C18_Witness ==
    /\ Tripped
    /\ bPc = "process_data"
    /\ \E id \in IDs : task[id] = "cancelled"

\* Every sleep of a log is followed by a fetch, every fetch preceded by a
\* sleep, and a fetch that returned left its key in the cache.
PacedOncePerFetch(id) ==
    \A k \in 1..Len(fetchLog[id]) :
       /\ fetchLog[id][k][1] = "sleep" =>
             k < Len(fetchLog[id]) /\ fetchLog[id][k + 1][1] = "fetch"
       /\ fetchLog[id][k][1] = "fetch" =>
             /\ k > 1
             /\ fetchLog[id][k - 1][1] = "sleep"
             /\ fetchLog[id][k][3] = "ok" => <<fetchLog[id][k][2], id>> \in cache

\* What a step adds to the log of an entity.
Added(id) == SubSeq(fetchLog'[id], Len(fetchLog[id]) + 1, Len(fetchLog'[id]))

\* No step fetches a key the cache holds, and a hit comes with no sleep.
HitsDoNotFetch ==
    \A id \in IDs : \A sub \in SubFetches :
       \A k \in 1..Len(Added(id)) :
          /\ <<sub, id>> \in cache =>
                ~(Added(id)[k][1] = "fetch" /\ Added(id)[k][2] = sub)
          /\ Added(id)[k] = <<"hit", sub>> =>
                <<sub, id>> \in cache /\ Len(Added(id)) = 1

\* C19: _get_with_cache consults the cache first: a hit neither sleeps nor
\* fetches; a miss sleeps exactly once, before the fetch, and stores what
\* the fetch returned, so a key in the cache is never fetched again.
C19_CacheConsultedFirst ==
    [](\A id \in IDs : PacedOncePerFetch(id)) /\ [][HitsDoNotFetch]_vars

\* An entity both of whose sub-fetches missed: two sleeps, each before its
\* fetch, and both keys cached.
C19_Witness ==
    \E id \in IDs :
       /\ fetchLog[id] = MissEvents("info", "ok") \o MissEvents("stats", "ok")
       /\ \A sub \in SubFetches : <<sub, id>> \in cache

\* A value the cache may hold for a key: what an earlier collection left,
\* or what a fetch of this run for that key returned.
FromSuccessfulFetch(key, val) ==
    \/ val = EarlierValue(key) /\ key \in AllKeys
    \/ /\ Len(val) = 3
       /\ val[1] = "fetched"
       /\ val[2] = key
       /\ val[3] \in 1..Len(fetchLog[key[2]])
       /\ fetchLog[key[2]][val[3]] = <<"fetch", key[1], "ok">>

CacheHoldsFetched ==
    \A key \in AllKeys :
       /\ key \in cache <=> cacheVal[key] # << >>
       /\ key \in cache => FromSuccessfulFetch(key, cacheVal[key])

\* An entry once stored stays as it is.
EntriesStay ==
    \A key \in AllKeys :
       key \in cache => (key \in cache' /\ cacheVal'[key] = cacheVal[key])

\* A fetch that raises leaves the cache as it was and the exception reaches
\* the caller, process_player, whose handler takes over.
RaiseLeavesCache ==
    \A id \in IDs : \A sub \in SubFetches :
       (\E k \in 1..Len(Added(id)) : Added(id)[k] = <<"fetch", sub, "raised">>) =>
          /\ cache' = cache
          /\ cacheVal' = cacheVal
          /\ task'[id] = "failed"
          /\ failedAt'[id] = sub

\* C26: a fetch that raises leaves the cache unchanged and the exception
\* propagates; the cache maps a key only to a value a successful fetch for
\* that key returned, and an entry once stored is never changed or removed
\* during the run.
C26_CacheIntegrity ==
    []CacheHoldsFetched /\ [][EntriesStay /\ RaiseLeavesCache]_vars

\* An entity whose first sub-fetch succeeded and is cached with the value
\* fetched, and whose second raised and is not in the cache.
C26_Witness ==
    \E id \in IDs :
       /\ task[id] = "errored"
       /\ failedAt[id] = "stats"
       /\ cacheVal[<<"info", id>>] = <<"fetched", <<"info", id>>, 2>>
       /\ <<"stats", id>> \notin cache
       /\ cacheVal[<<"stats", id>>] = << >>

(***************************************************************************)
(* The upload (SpecUpload).                                                *)
(***************************************************************************)
\* C8: in every state of any of the three entry points, every document that
\* has been inserted into the destination store carries an embedding of the
\* expected dimension, whatever the embedded-data file contains.
C8_InsertedHaveEmbedding ==
    uEntry \in PipelineEntries =>
        \A k \in 1..Len(uInserted) : uInserted[k].emb = "ok"

\* The batches of documents: ceil(len(documents) / batch_size).
NumBatches == (Len(documents) + uBatchSize - 1) \div uBatchSize

RECURSIVE SumSucceeded(_)
SumSucceeded(calls) ==
    IF calls = << >> THEN 0
    ELSE (IF Head(calls).outcome = "ok" THEN Head(calls).size ELSE 0)
             + SumSucceeded(Tail(calls))

\* The k-th insert_many call was for the k-th batch of the input, a batch
\* that raised was logged, and the running total counts the batches that
\* succeeded.
BatchesInOrder ==
    /\ \A k \in 1..Len(uBatches) :
          /\ uBatches[k].start = (k - 1) * uBatchSize
          /\ uBatches[k].size = Min(uBatchSize, Len(documents) - uBatches[k].start)
          /\ uBatches[k].outcome = "raised" =>
                \E m \in 1..Len(uLog) : uLog[m] = <<"error", "Error uploading batch", k>>
    /\ total_uploaded = SumSucceeded(uBatches)

\* upload_documents has returned: every batch was attempted and the value
\* returned is the sum of the sizes of the batches that succeeded.
AllBatchesAtReturn ==
    uPc = "returned" =>
        /\ Len(uBatches) = NumBatches
        /\ uReturn = Returned(SumSucceeded(uBatches))

ConnectSucceeded == \E m \in 1..Len(uLog) : uLog[m] = <<"info", "Connected">>

\* C9 as stated: upload_documents attempts every batch in input order, a
\* batch that raises contributes 0 and stops no later batch, and the total
\* returned is the sum of the sizes of the batches that succeeded.
C9_EveryBatchAttempted ==
    uEntry = "upload_documents" => BatchesInOrder /\ AllBatchesAtReturn

\* C9, amended: the same, of a call whose connect() succeeded. A call whose
\* connect() fails returns 0 and attempts no batch.
C9_BatchFailureIsolated ==
    /\ (uEntry = "upload_documents" /\ ConnectSucceeded) =>
           BatchesInOrder /\ AllBatchesAtReturn
    /\ (uEntry = "upload_documents" /\ uPc = "returned" /\ ~ConnectSucceeded) =>
           uBatches = << >> /\ uReturn = <<0>>

\* Five documents in batches of two, the second insert raising: batches 1
\* and 3 are inserted and 3 is returned.
C9_Witness ==
    /\ uEntry = "upload_documents"
    /\ uPc = "returned"
    /\ Len(documents) = 5
    /\ uBatchSize = 2
    /\ Len(uBatches) = 3
    /\ uBatches[1].outcome = "ok"
    /\ uBatches[2].outcome = "raised"
    /\ uBatches[3].outcome = "ok"
    /\ uReturn = <<3>>

\* C13: a create-index request is sent only when no index of the configured
\* name exists, and once the index exists every later create_vector_index
\* or upload_documents call sends none and reports success.
C13_CreateIfAbsent ==
    \A k \in 1..Len(uIndexLog) :
       /\ uIndexLog[k].requested => ~uIndexLog[k].existed
       /\ uIndexLog[k].existed => uIndexLog[k].result

IndexMessages ==
    {"Vector index does not exist", "Error checking vector index",
     "Error creating vector index"}

\* upload_documents of the MongoDB connector ran its index step and the
\* index was not confirmed or not created.
IndexStepFailed ==
    /\ uEntry \in PipelineEntries \cup {"upload_documents", "upload_file"}
    /\ uIndexLog # << >>
    /\ \/ ~uIndexLog[1].found
       \/ ~uIndexLog[1].result
       \/ \E m \in 1..Len(uLog) : uLog[m] = <<"error", "Error checking vector index">>

\* C14: a failure to confirm or create the vector index is logged and does
\* not abort the upload: the loop over the batches is next, every batch is
\* attempted and the count returned is that of the batches that succeeded.
C14_IndexFailureDoesNotAbort ==
    IndexStepFailed =>
        /\ uPc \in {"batches", "returned"}
        /\ \E m \in 1..Len(uLog) :
              uLog[m][1] \in {"warning", "error"} /\ uLog[m][2] \in IndexMessages
        /\ \A k \in 1..Len(uBatches) : uBatches[k].start = (k - 1) * uBatchSize
        /\ uPc = "returned" =>
              /\ Len(uBatches) = NumBatches
              /\ uReturn = Returned(SumSucceeded(uBatches))

\* An upload of five documents whose create-index request failed and whose
\* batches were all inserted.
C14_Witness ==
    /\ uEntry = "upload_documents"
    /\ uIndexLog # << >>
    /\ uIndexLog[1].requested
    /\ ~uIndexLog[1].result
    /\ uPc = "returned"
    /\ Len(documents) = 5
    /\ uReturn = <<5>>

BadInput(file) ==
    \/ file.state \in {"absent", "notlist"}
    \/ file.state = "list" /\ file.docs = << >>

\* No destination operation, the store as it was, and 0 returned.
NothingDone ==
    /\ uOps = {}
    /\ uIndexLog = << >>
    /\ store = storeAtStart
    /\ uInserted = << >>
    /\ uPc # "raised"
    /\ uPc = "returned" => uReturn = Returned(0)

\* C16 as stated: upload_file returns 0 and performs no destination
\* operation when its input file, <data_dir>/<filename>, is missing, holds
\* no list or holds an empty list, even with clear_first.
C16_NoWorkOnBadInput ==
    (uEntry \in FileEntries /\ BadInput(embFile)) => NothingDone

\* C16, amended: the same, where for the MongoDB connector the input file is
\* missing only when the current directory has no file of that name either.
C16_NoWorkOnBadFoundInput ==
    /\ (uEntry \in FileEntries \ TursoEntries /\ BadInput(FoundFile)) => NothingDone
    /\ (uEntry = "turso_upload_file" /\ BadInput(embFile)) => NothingDone

\* upload_file over an empty list with clear_first, on a store that holds a
\* document: 0 is returned and nothing was sent to the store.
C16_Witness ==
    /\ uEntry = "upload_file"
    /\ clear_first
    /\ storeAtStart # << >>
    /\ embFile = [state |-> "list", docs |-> << >>]
    /\ uPc = "returned"
    /\ uReturn = <<0>>
    /\ uOps = {}
    /\ store = storeAtStart

\* C20: NBATursoConnector.upload_documents returns the number of documents
\* it persisted, goes on after a failure inside a batch, and lets no
\* exception escape.
C20_TursoCountsPersisted ==
    uEntry \in TursoEntries =>
        /\ uPc # "raised"
        /\ uPc = "returned" => uReturn = <<Len(uInserted)>>
        /\ (uPc = "returned" /\ ConnectSucceeded) => Len(uBatches) = NumBatches

(***************************************************************************)
(* Start-up (SpecStart).                                                   *)
(***************************************************************************)
\* C15: when a credential is absent at start-up, by the time the failure is
\* reported no remote call has been made, no file has been written under
\* the raw, processed or embeddings directories and the destination has not
\* been touched.
C15_NoWorkWithoutCredentials ==
    (sFailure # << >> /\ ~(Credentials \subseteq env)) =>
        /\ sRemote = {}
        /\ sWritten = {}

(***************************************************************************)
(* The embedding stage inside the pipeline (SpecUpload).                   *)
(***************************************************************************)
\* C21: when all_processed_data.json is missing, unreadable or malformed,
\* the embedding stage reports failure and run_full_pipeline /
\* run_from_processed_data return False without starting the upload: no
\* operation is issued to the destination and the store is as it was.
C21_EmbeddingFailureStopsPipeline ==
    (/\ uEntry \in EmbeddingEntries
     /\ embStage # "none"
     /\ procFile \in {"absent", "unreadable", "malformed"}) =>
        /\ uPc = "returned"
        /\ uReturn = <<FALSE>>
        /\ uOps = {}
        /\ store = storeAtStart

(***************************************************************************)
(* The document assembler (SpecAsm).                                       *)
(***************************************************************************)
DedupKey(doc) == <<doc.entity_id, doc.category, doc.season>>

\* C28: the documents the assembler produces from one collected record have
\* pairwise distinct (entity_id, category, season) tuples, for players and
\* for teams.
C28_DistinctDedupKeys ==
    \A i, j \in 1..Len(aDocs) :
       i # j => DedupKey(aDocs[i]) # DedupKey(aDocs[j])

(***************************************************************************)
(* The two MongoDB connectors (SpecEquiv).                                 *)
(***************************************************************************)
\* C29: upload_documents of nba/connector.py and of nba_mongodb_connector.py
\* are equivalent: for every document list and every sequence of outcomes
\* of the store operations they issue the same writes to the store and
\* return the same count.
C29_ConnectorsEquivalent ==
    (qNba # << >> /\ qLegacy # << >>) => qNba = qLegacy

====
